---- MODULE Spec2Model ----
(***************************************************************************)
(* Model of the landscape design engine: the compatibility predicates of   *)
(* Plant, the suitability evaluator of Site, and DesignAlgorithm's zone    *)
(* partitioner, zone scorer, diversity-constrained selector, quantity      *)
(* estimator and statistics, driven by the two generation entry points.    *)
(*                                                                         *)
(* Number representation.  The code computes with Python floats; the model *)
(* computes the same values exactly:                                       *)
(*   - hardiness zone values are held doubled ("7a" -> 14, "7b" -> 15);    *)
(*   - pH values are held in tenths (6.5 -> 65);                           *)
(*   - the weights are held in hundredths (0.25 -> 25);                    *)
(*   - a final zone score is held in tenths (0.4*b + 0.6*z -> 4*b + 6*z);  *)
(*   - areas, percentages and means are reduced fractions [n, d];          *)
(*   - diversity_factor is a fraction [n, d].                              *)
(* The input sets below are chosen so that the float results of the code   *)
(* are exactly these values (areas are sums and products of quarters of    *)
(* the total area; the threshold target*(1-0.7) is compared with integers  *)
(* only for targets below 10, where the float and the exact comparison     *)
(* agree).                                                                 *)
(***************************************************************************)
EXTENDS Integers, Sequences, FiniteSets, TLC

VARIABLES
    plant_database,     \* LandscapeDesignTool.plant_database / app.plant_database
    site,               \* the Site the caller created
    weights,            \* DesignAlgorithm.weights
    pc,                 \* position of the generation call
    design_parameters,  \* the options of the running call
    compatible_plants,  \* generate_design: compatible_plants
    zones,              \* generate_design: zones
    zone_idx,           \* generate_design: position of `for zone in zones`
    scored_plants,      \* generate_design: scored_plants of the current zone
    scan_idx,           \* _select_plants_for_zone: position of the scan
    selected_plants,    \* _select_plants_for_zone: selected_plants
    plant_types,        \* _select_plants_for_zone: plant_types
    skipped,            \* observer: positions of scored_plants the scan skipped
    design,             \* generate_design: design under construction
    result,             \* what the last call handed to its caller
    prev,               \* observer: inputs and result of the preceding call
    arg,                \* inputs of the pure function under check
    ret                 \* its result

vars == <<plant_database, site, weights, pc, design_parameters,
          compatible_plants, zones, zone_idx, scored_plants, scan_idx,
          selected_plants, plant_types, skipped, design, result, prev,
          arg, ret>>

\* Largest catalog the model builds with add_plant.
MaxCatalog == 3

----------------------------------------------------------------------------
(* Python values *)

None == "None"

\* dict.get(key, default) on a dict held as a function
DictGet(d, k, default) == IF k \in DOMAIN d THEN d[k] ELSE default

\* A str / None / int value as the hardiness fields hold it.
NoneV == [kind |-> "none", s |-> <<>>, n |-> 0]
Str(s) == [kind |-> "str", s |-> s, n |-> 0]
IntV(n) == [kind |-> "int", s |-> <<>>, n |-> n]

\* Python truthiness of such a value
Truthy(v) ==
    CASE v.kind = "none" -> FALSE
      [] v.kind = "str" -> Len(v.s) > 0
      [] OTHER -> v.n # 0

Digits == {"0", "1", "2", "3", "4", "5", "6", "7", "8", "9"}
Letters == {"a", "b", "c", "x", "A", "B"}

DigitVal(c) ==
    CASE c = "0" -> 0 [] c = "1" -> 1 [] c = "2" -> 2 [] c = "3" -> 3
      [] c = "4" -> 4 [] c = "5" -> 5 [] c = "6" -> 6 [] c = "7" -> 7
      [] c = "8" -> 8 [] OTHER -> 9

\* str.lower() on one character
Lower(c) == CASE c = "A" -> "a" [] c = "B" -> "b" [] OTHER -> c

RECURSIVE LStrip(_)
LStrip(s) == IF Len(s) > 0 /\ Head(s) = " " THEN LStrip(Tail(s)) ELSE s

RECURSIVE RStrip(_)
RStrip(s) ==
    IF Len(s) > 0 /\ s[Len(s)] = " " THEN RStrip(SubSeq(s, 1, Len(s) - 1)) ELSE s

\* str.strip()
Strip(s) == LStrip(RStrip(s))

\* str.split('-'): the pieces between the dashes
RECURSIVE Split(_, _)
Split(s, cur) ==
    IF Len(s) = 0 THEN <<cur>>
    ELSE IF Head(s) = "-" THEN <<cur>> \o Split(Tail(s), <<>>)
    ELSE Split(Tail(s), Append(cur, Head(s)))

RECURSIVE DigitsValue(_, _)
DigitsValue(s, acc) ==
    IF Len(s) = 0 THEN acc ELSE DigitsValue(Tail(s), 10 * acc + DigitVal(Head(s)))

\* int(s) / float(s) on the model's alphabet: surrounding blanks are ignored,
\* then one or more digits are required. ok = FALSE stands for ValueError.
ParseNumber(s) ==
    LET t == Strip(s)
    IN  IF Len(t) > 0 /\ \A i \in 1..Len(t) : t[i] \in Digits
        THEN [ok |-> TRUE, v |-> DigitsValue(t, 0)]
        ELSE [ok |-> FALSE, v |-> 0]

----------------------------------------------------------------------------
(* Fractions *)

RECURSIVE GCD(_, _)
GCD(a, b) == IF b = 0 THEN a ELSE GCD(b, a % b)

\* the fraction n/d (n >= 0, d > 0) in lowest terms
Frac(n, d) == LET g == GCD(n, d) IN [n |-> n \div g, d |-> d \div g]

Whole(k) == [n |-> k, d |-> 1]

FracMul(x, y) == Frac(x.n * y.n, x.d * y.d)
FracDiv(x, y) == Frac(x.n * y.d, x.d * y.n)

----------------------------------------------------------------------------
(* models/plant.py *)

\* Plant.__init__ on the keyword arguments from_dict passes: an absent or
\* empty argument takes its default (`x or default`)
Plant(data) ==
    [scientific_name |-> data.scientific_name,
     plant_type |-> data.plant_type,
     native_range |-> DictGet(data, "native_range", {}),
     usda_hardiness_zone |-> DictGet(data, "usda_hardiness_zone", NoneV),
     spread_range |-> DictGet(data, "spread_range", <<0, 0>>),
     sun_exposure |-> DictGet(data, "sun_exposure", {}),
     water_needs |-> DictGet(data, "water_needs", None),
     soil_type |-> DictGet(data, "soil_type", {}),
     soil_ph |-> DictGet(data, "soil_ph", <<55, 75>>),
     maintenance_level |-> DictGet(data, "maintenance_level", None)]

\* Plant.to_dict: the dictionary a selection carries
to_dict(plant) ==
    [scientific_name |-> plant.scientific_name,
     plant_type |-> plant.plant_type,
     native_range |-> plant.native_range,
     usda_hardiness_zone |-> plant.usda_hardiness_zone,
     spread_range |-> plant.spread_range,
     sun_exposure |-> plant.sun_exposure,
     water_needs |-> plant.water_needs,
     soil_type |-> plant.soil_type,
     soil_ph |-> plant.soil_ph,
     maintenance_level |-> plant.maintenance_level]

\* _zone_to_numeric that drops the sub-zone suffix: "7b" counts as 7
_zone_to_numeric_IgnoresSuffix(zone) ==
    IF zone.kind # "str" \/ Len(zone.s) = 0 THEN 0
    ELSE LET s == zone.s
             last == s[Len(s)]
         IN  IF last \in Letters
             THEN LET base == ParseNumber(SubSeq(s, 1, Len(s) - 1))
                  IN  IF ~base.ok THEN 0 ELSE 2 * base.v
             ELSE LET f == ParseNumber(s)
                  IN  IF f.ok THEN 2 * f.v ELSE 0

\* Plant._zone_to_numeric, doubled. Every failure (None or a number is not
\* subscriptable, the empty string has no last character, int() or float()
\* rejects the text) ends in the method's own except clause, which returns 0.
_zone_to_numeric(zone) ==
    IF zone.kind # "str" \/ Len(zone.s) = 0 THEN 0
    ELSE LET s == zone.s
             last == s[Len(s)]
         IN  IF last \in Letters
             THEN LET base == ParseNumber(SubSeq(s, 1, Len(s) - 1))
                      suffix == Lower(last)
                  IN  IF ~base.ok THEN 0
                      ELSE IF suffix = "a" THEN 2 * base.v
                      ELSE IF suffix = "b" THEN 2 * base.v + 1
                      ELSE 2 * base.v
             ELSE LET f == ParseNumber(s)
                  IN  IF f.ok THEN 2 * f.v ELSE 0

\* Plant.is_compatible_with_zone. The try block fails only where split is
\* called on a value that is not a string; _zone_to_numeric never raises.
is_compatible_with_zone(plant, zone) ==
    IF ~Truthy(plant.usda_hardiness_zone) THEN TRUE
    ELSE IF plant.usda_hardiness_zone.kind # "str" THEN TRUE
    ELSE LET zone_parts == Split(plant.usda_hardiness_zone.s, <<>>)
             min_zone == Strip(zone_parts[1])
             max_zone == IF Len(zone_parts) > 1 THEN Strip(zone_parts[2])
                         ELSE min_zone
             zone_value == _zone_to_numeric(zone)
             min_zone_value == _zone_to_numeric(Str(min_zone))
             max_zone_value == _zone_to_numeric(Str(max_zone))
         IN  min_zone_value <= zone_value /\ zone_value <= max_zone_value

\* is_compatible_with_soil with the pH bounds exclusive
is_compatible_with_soil_ExclusiveBounds(plant, soil_type, soil_ph) ==
    LET soil_compatible == plant.soil_type = {} \/ soil_type \in plant.soil_type
        ph_compatible == plant.soil_ph[1] < soil_ph /\ soil_ph < plant.soil_ph[2]
    IN  soil_compatible /\ ph_compatible

\* Plant.is_compatible_with_soil
is_compatible_with_soil(plant, soil_type, soil_ph) ==
    LET soil_compatible == plant.soil_type = {} \/ soil_type \in plant.soil_type
        ph_compatible == plant.soil_ph[1] <= soil_ph /\ soil_ph <= plant.soil_ph[2]
    IN  soil_compatible /\ ph_compatible

\* is_compatible_with_sun that rejects every category when no tolerance is
\* declared
is_compatible_with_sun_FailClosed(plant, sun_condition) ==
    sun_condition \in plant.sun_exposure

\* Plant.is_compatible_with_sun
is_compatible_with_sun(plant, sun_condition) ==
    plant.sun_exposure = {} \/ sun_condition \in plant.sun_exposure

\* the water tiers in the order dry, medium, wet
WaterRank(tier) ==
    CASE tier = "dry" -> 1 [] tier = "medium" -> 2 [] tier = "wet" -> 3 [] OTHER -> 9

\* is_compatible_with_water that also accepts the tier next to the organism's
is_compatible_with_water_Neighbours(plant, water_condition) ==
    \/ plant.water_needs \in {None, ""}
    \/ plant.water_needs = water_condition
    \/ WaterRank(plant.water_needs) - WaterRank(water_condition) \in {-1, 1}

\* Plant.is_compatible_with_water; `not self.water_needs` holds for None and
\* for the empty string
is_compatible_with_water(plant, water_condition) ==
    plant.water_needs \in {None, ""} \/ plant.water_needs = water_condition

----------------------------------------------------------------------------
(* models/site.py *)

\* Site.get_total_area
get_total_area(s) ==
    DictGet(s.dimensions, "width", 0) * DictGet(s.dimensions, "length", 0)

\* the keys of a mapping held as a sequence of <<key, value>> pairs
Keys(m) == {m[i][1] : i \in 1..Len(m)}

\* is_suitable_for_plant whose sun and water flags ask for every category
\* of the site instead of any
is_suitable_for_plant_EveryCategory(s, plant) ==
    LET zone_compatible == is_compatible_with_zone(plant, s.hardiness_zone)
        soil_compatible == is_compatible_with_soil(plant, s.soil_type, s.soil_ph)
        sun_compatible ==
            \A exposure_type \in Keys(s.sun_exposure) :
                is_compatible_with_sun(plant, exposure_type)
        water_compatible ==
            \A condition_type \in Keys(s.water_conditions) :
                is_compatible_with_water(plant, condition_type)
        score == (IF zone_compatible THEN 30 ELSE 0)
                 + (IF soil_compatible THEN 30 ELSE 0)
                 + (IF sun_compatible THEN 20 ELSE 0)
                 + (IF water_compatible THEN 20 ELSE 0)
    IN  [overall_score |-> score,
         zone_compatible |-> zone_compatible,
         soil_compatible |-> soil_compatible,
         sun_compatible |-> sun_compatible,
         water_compatible |-> water_compatible]

\* Site.is_suitable_for_plant
is_suitable_for_plant(s, plant) ==
    LET zone_compatible == is_compatible_with_zone(plant, s.hardiness_zone)
        soil_compatible == is_compatible_with_soil(plant, s.soil_type, s.soil_ph)
        sun_compatible ==
            IF Len(s.sun_exposure) > 0
            THEN \E exposure_type \in Keys(s.sun_exposure) :
                     is_compatible_with_sun(plant, exposure_type)
            ELSE TRUE
        water_compatible ==
            IF Len(s.water_conditions) > 0
            THEN \E condition_type \in Keys(s.water_conditions) :
                     is_compatible_with_water(plant, condition_type)
            ELSE TRUE
        score == (IF zone_compatible THEN 30 ELSE 0)
                 + (IF soil_compatible THEN 30 ELSE 0)
                 + (IF sun_compatible THEN 20 ELSE 0)
                 + (IF water_compatible THEN 20 ELSE 0)
    IN  [overall_score |-> score,
         zone_compatible |-> zone_compatible,
         soil_compatible |-> soil_compatible,
         sun_compatible |-> sun_compatible,
         water_compatible |-> water_compatible]

----------------------------------------------------------------------------
(* models/design_algorithm.py: the parts that are functions of their inputs *)

\* DesignAlgorithm.__init__: the default weights, in hundredths
DefaultWeights ==
    [water_needs |-> 25, soil_compatibility |-> 25, sun_requirements |-> 20,
     native_preference |-> 15, maintenance_level |-> 10, aesthetic_value |-> 5]

\* _filter_compatible_plants with the threshold >= 50 for > 50
RECURSIVE _filter_compatible_plants_AtLeast50(_, _)
_filter_compatible_plants_AtLeast50(s, db) ==
    IF Len(db) = 0 THEN <<>>
    ELSE LET plant == Head(db)
             suitability == is_suitable_for_plant(s, plant)
             rest == _filter_compatible_plants_AtLeast50(s, Tail(db))
         IN  IF suitability.overall_score >= 50
             THEN <<[plant |-> plant, suitability |-> suitability]>> \o rest
             ELSE rest

\* DesignAlgorithm._filter_compatible_plants
RECURSIVE _filter_compatible_plants(_, _)
_filter_compatible_plants(s, db) ==
    IF Len(db) = 0 THEN <<>>
    ELSE LET plant == Head(db)
             suitability == is_suitable_for_plant(s, plant)
             rest == _filter_compatible_plants(s, Tail(db))
         IN  IF suitability.overall_score > 50
             THEN <<[plant |-> plant, suitability |-> suitability]>> \o rest
             ELSE rest

\* one zone dictionary
Zone(id, sun, water, soil_type, soil_ph, area, percentage) ==
    [id |-> id, sun_exposure |-> sun, water_condition |-> water,
     soil_type |-> soil_type, soil_ph |-> soil_ph, area |-> area,
     percentage |-> percentage]

\* OverlapArea that takes the smaller of the two areas as the overlap
OverlapArea_Smaller(sun_area, water_area, total) ==
    Whole(IF sun_area <= water_area THEN sun_area ELSE water_area)

\* OverlapArea without the final scaling by the total area
OverlapArea_Unscaled(sun_area, water_area, total) ==
    FracMul(Frac(sun_area, total), Frac(water_area, total))

\* overlap_area = (sun_area / total) * (water_area / total) * total
OverlapArea(sun_area, water_area, total) ==
    FracMul(FracMul(Frac(sun_area, total), Frac(water_area, total)), Whole(total))

\* CrossZones without the test overlap_area > 0: every pair becomes a zone
RECURSIVE CrossZones_KeepsEmpty(_, _, _, _)
CrossZones_KeepsEmpty(s, i, j, acc) ==
    IF i > Len(s.sun_exposure) THEN acc
    ELSE IF j > Len(s.water_conditions) THEN CrossZones_KeepsEmpty(s, i + 1, 1, acc)
    ELSE LET total == get_total_area(s)
             overlap_area == OverlapArea(s.sun_exposure[i][2],
                                         s.water_conditions[j][2], total)
             zone == Zone("zone_" \o ToString(Len(acc) + 1),
                          s.sun_exposure[i][1], s.water_conditions[j][1],
                          s.soil_type, s.soil_ph, overlap_area,
                          FracMul(FracDiv(overlap_area, Whole(total)), Whole(100)))
         IN  CrossZones_KeepsEmpty(s, i, j + 1, Append(acc, zone))

\* DesignAlgorithm._create_site_zones, the nested loops over the sun and the
\* water mapping from position (i, j) on; acc holds the zones made so far
RECURSIVE CrossZones(_, _, _, _)
CrossZones(s, i, j, acc) ==
    IF i > Len(s.sun_exposure) THEN acc
    ELSE IF j > Len(s.water_conditions) THEN CrossZones(s, i + 1, 1, acc)
    ELSE LET total == get_total_area(s)
             overlap_area == OverlapArea(s.sun_exposure[i][2],
                                         s.water_conditions[j][2], total)
             zone == Zone("zone_" \o ToString(Len(acc) + 1),
                          s.sun_exposure[i][1], s.water_conditions[j][1],
                          s.soil_type, s.soil_ph, overlap_area,
                          FracMul(FracDiv(overlap_area, Whole(total)), Whole(100)))
         IN  CrossZones(s, i, j + 1,
                        IF overlap_area.n > 0 THEN Append(acc, zone) ELSE acc)

\* _create_site_zones divides by the total area in the first iteration of
\* the inner loop: with a total area of 0 that is a ZeroDivisionError
CreateZonesRaises(s) ==
    /\ Len(s.zones) = 0
    /\ Len(s.sun_exposure) > 0
    /\ Len(s.water_conditions) > 0
    /\ get_total_area(s) = 0

\* _create_site_zones that turns to site.zones only when the breakdown
\* yields no zone
_create_site_zones_BreakdownFirst(s) ==
    LET made == IF Len(s.sun_exposure) > 0 /\ Len(s.water_conditions) > 0
                   /\ get_total_area(s) > 0
                THEN CrossZones(s, 1, 1, <<>>)
                ELSE <<>>
    IN  IF Len(made) > 0 THEN made
        ELSE IF Len(s.zones) > 0 THEN s.zones
        ELSE <<Zone("zone_1", "full_sun", "medium", s.soil_type, s.soil_ph,
                    Whole(get_total_area(s)), Whole(100))>>

\* DesignAlgorithm._create_site_zones, where it does not raise
_create_site_zones(s) ==
    IF Len(s.zones) > 0 THEN s.zones
    ELSE LET made == IF Len(s.sun_exposure) > 0 /\ Len(s.water_conditions) > 0
                     THEN CrossZones(s, 1, 1, <<>>)
                     ELSE <<>>
         IN  IF Len(made) = 0
             THEN <<Zone("zone_1", "full_sun", "medium", s.soil_type, s.soil_ph,
                         Whole(get_total_area(s)), Whole(100))>>
             ELSE made

\* ZoneScore that gives the medium maintenance tier the full weight
ZoneScore_MediumAsLow(w, zone, plant) ==
    (IF is_compatible_with_sun(plant, zone.sun_exposure)
     THEN w.sun_requirements ELSE 0)
    + (IF is_compatible_with_water(plant, zone.water_condition)
       THEN w.water_needs ELSE 0)
    + (IF is_compatible_with_soil(plant, zone.soil_type, zone.soil_ph)
       THEN w.soil_compatibility ELSE 0)
    + (IF "Arkansas" \in plant.native_range \/ "AR" \in plant.native_range
       THEN w.native_preference ELSE 0)
    + (IF plant.maintenance_level \in {"low", "medium"} THEN w.maintenance_level
       ELSE 0)

\* the zone bonus of _score_plants_for_zone (zone_score), w the weights
ZoneScore(w, zone, plant) ==
    (IF is_compatible_with_sun(plant, zone.sun_exposure)
     THEN w.sun_requirements ELSE 0)
    + (IF is_compatible_with_water(plant, zone.water_condition)
       THEN w.water_needs ELSE 0)
    + (IF is_compatible_with_soil(plant, zone.soil_type, zone.soil_ph)
       THEN w.soil_compatibility ELSE 0)
    + (IF "Arkansas" \in plant.native_range \/ "AR" \in plant.native_range
       THEN w.native_preference ELSE 0)
    + (IF plant.maintenance_level = "low" THEN w.maintenance_level
       ELSE IF plant.maintenance_level = "medium" THEN w.maintenance_level \div 2
       ELSE 0)

\* final_score = base_suitability * 0.4 + zone_score * 0.6, in tenths
FinalScore(w, zone, plant_info) ==
    4 * plant_info.suitability.overall_score + 6 * ZoneScore(w, zone, plant_info.plant)

\* ScoreAll that leaves out the organisms that do not fit the sun category
\* of the zone
ScoreAll_SunFilter(w, zone, compatible) ==
    LET Fits(e) == is_compatible_with_sun(e.plant, zone.sun_exposure)
    IN  SelectSeq([i \in 1..Len(compatible) |->
                      [plant |-> compatible[i].plant,
                       score |-> FinalScore(w, zone, compatible[i]),
                       zone_id |-> zone.id]],
                  Fits)

\* the loop of _score_plants_for_zone: one scored entry per compatible plant
ScoreAll(w, zone, compatible) ==
    [i \in 1..Len(compatible) |->
        [plant |-> compatible[i].plant,
         score |-> FinalScore(w, zone, compatible[i]),
         zone_id |-> zone.id]]

\* InsertDescending with > for >=: an entry goes in front of its equals
InsertDescending_Unstable(sorted, x) ==
    LET k == Cardinality({i \in 1..Len(sorted) : sorted[i].score > x.score})
    IN  SubSeq(sorted, 1, k) \o <<x>> \o SubSeq(sorted, k + 1, Len(sorted))

\* list.sort(key=score, reverse=True) places an entry behind every entry that
\* is not smaller: equal entries keep the order they came in
InsertDescending(sorted, x) ==
    LET k == Cardinality({i \in 1..Len(sorted) : sorted[i].score >= x.score})
    IN  SubSeq(sorted, 1, k) \o <<x>> \o SubSeq(sorted, k + 1, Len(sorted))

RECURSIVE SortDescending(_)
SortDescending(seq) ==
    IF Len(seq) = 0 THEN <<>>
    ELSE InsertDescending(SortDescending(SubSeq(seq, 1, Len(seq) - 1)), seq[Len(seq)])

\* DesignAlgorithm._score_plants_for_zone
_score_plants_for_zone(w, zone, compatible) ==
    SortDescending(ScoreAll(w, zone, compatible))

\* _calculate_plant_quantity with the tier tests < for <=
_calculate_plant_quantity_ExclusiveTiers(plant, area) ==
    LET spread_sum == plant.spread_range[1] + plant.spread_range[2]
        quarters == IF spread_sum < 2 THEN 64
                    ELSE IF spread_sum < 6 THEN 16
                    ELSE IF spread_sum < 12 THEN 4
                    ELSE 1
        quantity == (area.n * quarters) \div (area.d * 400)
    IN  IF quantity > 1 THEN quantity ELSE 1

\* DesignAlgorithm._calculate_plant_quantity; the density is held in quarters
_calculate_plant_quantity(plant, area) ==
    LET spread_sum == plant.spread_range[1] + plant.spread_range[2]
        quarters == IF spread_sum <= 2 THEN 64
                    ELSE IF spread_sum <= 6 THEN 16
                    ELSE IF spread_sum <= 12 THEN 4
                    ELSE 1
        quantity == (area.n * quarters) \div (area.d * 400)
    IN  IF quantity > 1 THEN quantity ELSE 1

\* target_count of _select_plants_for_zone
TargetCount(zone, max_plants) ==
    LET by_area == (zone.area.n \div (zone.area.d * 100)) + 1
        area_based_count == IF max_plants < by_area THEN max_plants ELSE by_area
    IN  IF area_based_count > 1 THEN area_based_count ELSE 1

\* Blocked with > for >=: a category at its threshold is not yet blocked
Blocked_StrictlyAbove(count, target_count, diversity_factor) ==
    count * diversity_factor.d
        > target_count * (diversity_factor.d - diversity_factor.n)

\* plant_types[t] >= target_count * (1 - diversity_factor)
Blocked(count, target_count, diversity_factor) ==
    count * diversity_factor.d
        >= target_count * (diversity_factor.d - diversity_factor.n)

\* one selection dictionary
Selection(plant_info, zone) ==
    [plant |-> to_dict(plant_info.plant),
     score |-> plant_info.score,
     quantity |-> _calculate_plant_quantity(plant_info.plant, zone.area),
     zone_id |-> zone.id]

\* AllSelections that stops after the first zone
AllSelections_FirstZone(zs) ==
    IF Len(zs) = 0 THEN <<>> ELSE Head(zs).plants

RECURSIVE AllSelections(_)
AllSelections(zs) ==
    IF Len(zs) = 0 THEN <<>> ELSE Head(zs).plants \o AllSelections(Tail(zs))

RECURSIVE SumSeq(_)
SumSeq(seq) == IF Len(seq) = 0 THEN 0 ELSE Head(seq) + SumSeq(Tail(seq))

\* the sum of f over the entries of a sequence
SumOver(seq, f(_)) == SumSeq([i \in 1..Len(seq) |-> f(seq[i])])

TierScore(tier) ==
    IF tier = "low" THEN 1 ELSE IF tier = "medium" THEN 2
    ELSE IF tier = "high" THEN 3 ELSE 0

\* _calculate_design_statistics whose native percentage counts selections
\* instead of quantities
_calculate_design_statistics_CountsSelections(d) ==
    LET sel == AllSelections(d.zones)
        Quantity(x) == x.quantity
        Native(x) == IF "Arkansas" \in x.plant.native_range
                        \/ "AR" \in x.plant.native_range
                     THEN 1 ELSE 0
        Water(x) == x.quantity * TierScore(x.plant.water_needs)
        Maintenance(x) == x.quantity * TierScore(x.plant.maintenance_level)
        total_plants == SumOver(sel, Quantity)
        types == {sel[i].plant.plant_type : i \in 1..Len(sel)}
    IN  [total_plants |-> total_plants,
         plant_types |->
            [t \in types |->
                LET OfType(x) == IF x.plant.plant_type = t THEN x.quantity ELSE 0
                IN  SumOver(sel, OfType)],
         native_percentage |->
            IF total_plants > 0 THEN Frac(SumOver(sel, Native) * 100, Len(sel))
            ELSE Whole(0),
         water_usage_score |->
            IF total_plants > 0 THEN Frac(SumOver(sel, Water), total_plants)
            ELSE Whole(0),
         maintenance_score |->
            IF total_plants > 0 THEN Frac(SumOver(sel, Maintenance), total_plants)
            ELSE Whole(0),
         biodiversity_score |->
            IF Cardinality(types) * 10 < 100 THEN Cardinality(types) * 10 ELSE 100]

\* _calculate_design_statistics without the cap min(100, ...) of the
\* biodiversity score
_calculate_design_statistics_Uncapped(d) ==
    LET sel == AllSelections(d.zones)
        Quantity(x) == x.quantity
        Native(x) == IF "Arkansas" \in x.plant.native_range
                        \/ "AR" \in x.plant.native_range
                     THEN x.quantity ELSE 0
        Water(x) == x.quantity * TierScore(x.plant.water_needs)
        Maintenance(x) == x.quantity * TierScore(x.plant.maintenance_level)
        total_plants == SumOver(sel, Quantity)
        types == {sel[i].plant.plant_type : i \in 1..Len(sel)}
    IN  [total_plants |-> total_plants,
         plant_types |->
            [t \in types |->
                LET OfType(x) == IF x.plant.plant_type = t THEN x.quantity ELSE 0
                IN  SumOver(sel, OfType)],
         native_percentage |->
            IF total_plants > 0 THEN Frac(SumOver(sel, Native) * 100, total_plants)
            ELSE Whole(0),
         water_usage_score |->
            IF total_plants > 0 THEN Frac(SumOver(sel, Water), total_plants)
            ELSE Whole(0),
         maintenance_score |->
            IF total_plants > 0 THEN Frac(SumOver(sel, Maintenance), total_plants)
            ELSE Whole(0),
         biodiversity_score |-> Cardinality(types) * 10]

\* DesignAlgorithm._calculate_design_statistics
_calculate_design_statistics(d) ==
    LET sel == AllSelections(d.zones)
        Quantity(x) == x.quantity
        Native(x) == IF "Arkansas" \in x.plant.native_range
                        \/ "AR" \in x.plant.native_range
                     THEN x.quantity ELSE 0
        Water(x) == x.quantity * TierScore(x.plant.water_needs)
        Maintenance(x) == x.quantity * TierScore(x.plant.maintenance_level)
        total_plants == SumOver(sel, Quantity)
        types == {sel[i].plant.plant_type : i \in 1..Len(sel)}
    IN  [total_plants |-> total_plants,
         plant_types |->
            [t \in types |->
                LET OfType(x) == IF x.plant.plant_type = t THEN x.quantity ELSE 0
                IN  SumOver(sel, OfType)],
         native_percentage |->
            IF total_plants > 0 THEN Frac(SumOver(sel, Native) * 100, total_plants)
            ELSE Whole(0),
         water_usage_score |->
            IF total_plants > 0 THEN Frac(SumOver(sel, Water), total_plants)
            ELSE Whole(0),
         maintenance_score |->
            IF total_plants > 0 THEN Frac(SumOver(sel, Maintenance), total_plants)
            ELSE Whole(0),
         biodiversity_score |->
            IF Cardinality(types) * 10 < 100 THEN Cardinality(types) * 10 ELSE 100]

\* Site.to_dict
site_to_dict(s) ==
    [name |-> s.name, dimensions |-> s.dimensions, soil_type |-> s.soil_type,
     soil_ph |-> s.soil_ph, sun_exposure |-> s.sun_exposure,
     water_conditions |-> s.water_conditions,
     hardiness_zone |-> s.hardiness_zone, zones |-> s.zones]

----------------------------------------------------------------------------
(* Inputs *)

\* hardiness texts, one character per element
Z_5to9 == <<"5", "-", "9">>
Z_5to8 == <<"5", "-", "8">>
Z_7a == <<"7", "a">>
Z_abc == <<"a", "b", "c">>

\* The organisms a caller may add. Amsonia and Vernonia are the two sample
\* plants of main.py; they share their category and tie in a full-sun zone.
PlantPool ==
    {Plant([scientific_name |-> "Amsonia", plant_type |-> "perennial",
            native_range |-> {"Arkansas", "Oklahoma"},
            usda_hardiness_zone |-> Str(Z_5to9), spread_range |-> <<2, 3>>,
            sun_exposure |-> {"full_sun", "part_shade"}, water_needs |-> "medium",
            soil_type |-> {"loam", "sandy"}, soil_ph |-> <<55, 75>>,
            maintenance_level |-> "low"]),
     Plant([scientific_name |-> "Vernonia", plant_type |-> "perennial",
            native_range |-> {"Arkansas", "Missouri"},
            usda_hardiness_zone |-> Str(Z_5to8), spread_range |-> <<2, 3>>,
            sun_exposure |-> {"full_sun"}, water_needs |-> "medium",
            soil_type |-> {"clay", "loam"}, soil_ph |-> <<50, 70>>,
            maintenance_level |-> "low"]),
     Plant([scientific_name |-> "Quercus", plant_type |-> "tree",
            native_range |-> {"AR"},
            usda_hardiness_zone |-> Str(Z_abc), spread_range |-> <<30, 40>>]),
     Plant([scientific_name |-> "Hosta", plant_type |-> "perennial",
            native_range |-> {"Asia"}, spread_range |-> <<1, 1>>,
            sun_exposure |-> {"full_shade"}, water_needs |-> "wet",
            soil_type |-> {"clay"}, soil_ph |-> <<60, 70>>,
            maintenance_level |-> "high"])}

\* a site of 20 x 20, and one whose width is missing (total area 0)
Dimensions == {[width |-> 20, length |-> 20], [length |-> 20]}

\* the sun and the water mapping of a site: none, sun only, both
Exposures ==
    {<< <<>>, <<>> >>,
     << <<<<"full_sun", 200>>, <<"part_shade", 200>>>>, <<>> >>,
     << <<<<"full_sun", 200>>, <<"part_shade", 200>>>>,
        <<<<"dry", 200>>, <<"medium", 200>>>> >>}

\* caller-supplied zone lists (Site.add_zone); <<>> is a site without zones
ZoneLists ==
    {<<>>,
     <<Zone("bed", "full_sun", "medium", "loam", 65, Whole(500), Whole(50)),
       Zone("pond", "full_shade", "wet", "clay", 70, Whole(50), Whole(5))>>}

\* Site.from_dict
SiteOf(d, e, zl) ==
    [name |-> "yard", dimensions |-> d, soil_type |-> "loam", soil_ph |-> 65,
     sun_exposure |-> e[1], water_conditions |-> e[2],
     hardiness_zone |-> Str(Z_7a), zones |-> zl]

\* the sites above, and one of width 0 with both mappings and no zones
Sites ==
    {SiteOf(d, e, zl) : d \in Dimensions, e \in Exposures, zl \in ZoneLists}
    \cup {SiteOf([width |-> 0, length |-> 20], e, <<>>) :
             e \in {x \in Exposures : Len(x[2]) > 0}}

\* a dict of options with the given keys present; <<>> leaves a key out
Options(ppz, df) ==
    [k \in (IF ppz = <<>> THEN {} ELSE {"plants_per_zone"})
            \cup (IF df = <<>> THEN {} ELSE {"diversity_factor"}) |->
        IF k = "plants_per_zone" THEN ppz[1] ELSE df[1]]

DesignParameters ==
    {Options(ppz, df) :
        ppz \in {<<>>, <<2>>},
        df \in {<<>>, <<Frac(0, 1)>>, <<Frac(1, 2)>>, <<Frac(1, 1)>>}}

\* design_parameters.get('plants_per_zone', 5)
MaxPlants(params) == DictGet(params, "plants_per_zone", 5)

\* DiversityFactor that caps the option at 0.9
DiversityFactor_Capped(params) ==
    LET df == DictGet(params, "diversity_factor", Frac(7, 10))
    IN  IF df.n * 10 > 9 * df.d THEN Frac(9, 10) ELSE df

\* design_parameters.get('diversity_factor', 0.7)
DiversityFactor(params) == DictGet(params, "diversity_factor", Frac(7, 10))

----------------------------------------------------------------------------
(* State *)

NoDesign == [site |-> <<>>, zones |-> <<>>, plant_selections |-> <<>>,
             statistics |-> <<>>]

\* what a caller holds after a call: a design, None (no design produced),
\* an exception that reached it, or nothing yet
NoCall == [kind |-> "nocall", design |-> NoDesign]
ReturnedNone == [kind |-> "none", design |-> NoDesign]
Raised == [kind |-> "raised", design |-> NoDesign]
Returned(d) == [kind |-> "design", design |-> d]

NoPrev == [valid |-> FALSE, design |-> NoDesign]

\* the result of the function under check, before and after it ran
NotRun == [done |-> FALSE, value |-> FALSE]
Ran(v) == [done |-> TRUE, value |-> v]

\* the call frame of generate_design is empty outside a call
FrameCleared ==
    /\ compatible_plants' = <<>>
    /\ zones' = <<>>
    /\ zone_idx' = 0
    /\ scored_plants' = <<>>
    /\ scan_idx' = 0
    /\ selected_plants' = <<>>
    /\ plant_types' = <<>>
    /\ skipped' = {}
    /\ design' = NoDesign

Init ==
    /\ plant_database = <<>>
    /\ site \in Sites
    /\ weights = DefaultWeights
    /\ pc = "idle"
    /\ design_parameters = <<>>
    /\ compatible_plants = <<>>
    /\ zones = <<>>
    /\ zone_idx = 0
    /\ scored_plants = <<>>
    /\ scan_idx = 0
    /\ selected_plants = <<>>
    /\ plant_types = <<>>
    /\ skipped = {}
    /\ design = NoDesign
    /\ result = NoCall
    /\ prev = NoPrev
    /\ arg = <<>>
    /\ ret = NotRun

----------------------------------------------------------------------------
(* Operations *)

\* d[k] = v on a dict held as a function
DictPut(d, k, v) == [x \in DOMAIN d \cup {k} |-> IF x = k THEN v ELSE d[x]]

\* the caller drops what the last call returned
CallerForgets ==
    /\ result' = NoCall
    /\ prev' = NoPrev
    /\ design_parameters' = <<>>

\* LandscapeDesignTool.add_plant: Plant.from_dict, then append. The caller
\* adds an organism once.
AddPlant(plant) ==
    /\ pc = "idle"
    /\ Len(plant_database) < MaxCatalog
    /\ \A i \in 1..Len(plant_database) : plant_database[i] # plant
    /\ plant_database' = Append(plant_database, plant)
    /\ CallerForgets
    /\ UNCHANGED <<site, weights, pc, compatible_plants, zones, zone_idx,
                   scored_plants, scan_idx, selected_plants, plant_types,
                   skipped, design, arg, ret>>

\* LandscapeDesignTool.create_site: Site.from_dict
CreateSite(s) ==
    /\ pc = "idle"
    /\ s # site
    /\ site' = s
    /\ CallerForgets
    /\ UNCHANGED <<plant_database, weights, pc, compatible_plants, zones,
                   zone_idx, scored_plants, scan_idx, selected_plants,
                   plant_types, skipped, design, arg, ret>>

\* observer: the design of the preceding call, when it had the same inputs
Remember(params) ==
    prev' = IF result.kind = "design" /\ design_parameters = params
            THEN [valid |-> TRUE, design |-> result.design]
            ELSE NoPrev

\* EnterAlgorithm of a partitioner that builds its zones in site.zones itself
EnterAlgorithm_AliasesZones(params) ==
    /\ design_parameters' = params
    /\ Remember(params)
    /\ compatible_plants' = _filter_compatible_plants(site, plant_database)
    /\ zones' = _create_site_zones(site)
    /\ site' = [site EXCEPT !.zones = _create_site_zones(site)]
    /\ zone_idx' = 1
    /\ design' = [site |-> site_to_dict(site), zones |-> <<>>,
                  plant_selections |-> <<>>, statistics |-> <<>>]
    /\ result' = NoCall
    /\ pc' = "zones"
    /\ UNCHANGED <<plant_database, weights, scored_plants, scan_idx,
                   selected_plants, plant_types, skipped, arg, ret>>

\* DesignAlgorithm.generate_design up to the loop over the zones
\* (lines 42-56): pre-filter, partition, empty design
EnterAlgorithm(params) ==
    /\ design_parameters' = params
    /\ Remember(params)
    /\ compatible_plants' = _filter_compatible_plants(site, plant_database)
    /\ zones' = _create_site_zones(site)
    /\ zone_idx' = 1
    /\ design' = [site |-> site_to_dict(site), zones |-> <<>>,
                  plant_selections |-> <<>>, statistics |-> <<>>]
    /\ result' = NoCall
    /\ pc' = "zones"
    /\ UNCHANGED <<plant_database, site, weights, scored_plants, scan_idx,
                   selected_plants, plant_types, skipped, arg, ret>>

\* a call that ends at once with outcome r
EndsWith(params, r) ==
    /\ design_parameters' = params
    /\ Remember(params)
    /\ result' = r
    /\ UNCHANGED <<plant_database, site, weights, pc, compatible_plants, zones,
                   zone_idx, scored_plants, scan_idx, selected_plants,
                   plant_types, skipped, design, arg, ret>>

\* DesignAlgorithm.generate_design called directly (ui/app.py:145): the
\* ZeroDivisionError of _create_site_zones reaches the caller
AlgorithmGenerate(params) ==
    /\ pc = "idle"
    /\ IF CreateZonesRaises(site) THEN EndsWith(params, Raised)
       ELSE EnterAlgorithm(params)

\* LandscapeDesignTool.generate_design: None for an empty database, and None
\* for any exception of the algorithm
ToolGenerate(params) ==
    /\ pc = "idle"
    /\ IF Len(plant_database) = 0 THEN EndsWith(params, ReturnedNone)
       ELSE IF CreateZonesRaises(site) THEN EndsWith(params, ReturnedNone)
       ELSE EnterAlgorithm(params)

\* the head of `for zone in zones` with a zone left: _score_plants_for_zone,
\* then the entry of _select_plants_for_zone (lines 231-236)
BeginZone ==
    /\ pc = "zones"
    /\ zone_idx <= Len(zones)
    /\ scored_plants' = _score_plants_for_zone(weights, zones[zone_idx],
                                                compatible_plants)
    /\ selected_plants' = <<>>
    /\ plant_types' = <<>>
    /\ skipped' = {}
    /\ scan_idx' = 1
    /\ pc' = "select"
    /\ UNCHANGED <<plant_database, site, weights, design_parameters,
                   compatible_plants, zones, zone_idx, design, result, prev,
                   arg, ret>>

target_count == TargetCount(zones[zone_idx], MaxPlants(design_parameters))

\* SelectStep with the break test > for >=: the scan goes one entry too far
SelectStep_LateBreak ==
    /\ pc = "select"
    /\ scan_idx <= Len(scored_plants)
    /\ Len(selected_plants) <= target_count
    /\ LET plant_info == scored_plants[scan_idx]
           type == plant_info.plant.plant_type
           count == DictGet(plant_types, type, 0)
       IN  IF Blocked(count, target_count, DiversityFactor(design_parameters))
           THEN /\ plant_types' = DictPut(plant_types, type, count)
                /\ skipped' = skipped \cup {scan_idx}
                /\ UNCHANGED selected_plants
           ELSE /\ selected_plants' =
                       Append(selected_plants,
                              Selection(plant_info, zones[zone_idx]))
                /\ plant_types' = DictPut(plant_types, type, count + 1)
                /\ UNCHANGED skipped
    /\ scan_idx' = scan_idx + 1
    /\ UNCHANGED <<plant_database, site, weights, pc, design_parameters,
                   compatible_plants, zones, zone_idx, scored_plants, design,
                   result, prev, arg, ret>>

\* one iteration of the scan of _select_plants_for_zone (lines 239-259)
SelectStep ==
    /\ pc = "select"
    /\ scan_idx <= Len(scored_plants)
    /\ Len(selected_plants) < target_count
    /\ LET plant_info == scored_plants[scan_idx]
           type == plant_info.plant.plant_type
           count == DictGet(plant_types, type, 0)
       IN  IF Blocked(count, target_count, DiversityFactor(design_parameters))
           THEN /\ plant_types' = DictPut(plant_types, type, count)
                /\ skipped' = skipped \cup {scan_idx}
                /\ UNCHANGED selected_plants
           ELSE /\ selected_plants' =
                       Append(selected_plants,
                              Selection(plant_info, zones[zone_idx]))
                /\ plant_types' = DictPut(plant_types, type, count + 1)
                /\ UNCHANGED skipped
    /\ scan_idx' = scan_idx + 1
    /\ UNCHANGED <<plant_database, site, weights, pc, design_parameters,
                   compatible_plants, zones, zone_idx, scored_plants, design,
                   result, prev, arg, ret>>

\* plant_selections after `if plant_selection not in ...: append` for each
\* selection of the zone
RECURSIVE AddDistinct(_, _)
AddDistinct(flat, sel) ==
    IF Len(sel) = 0 THEN flat
    ELSE AddDistinct(IF \E i \in 1..Len(flat) : flat[i] = Head(sel)
                     THEN flat ELSE Append(flat, Head(sel)),
                     Tail(sel))

\* the selection filled up to the target from the skipped candidates, best first
RECURSIVE Backfilled(_, _)
Backfilled(plants, i) ==
    IF i > Len(scored_plants) \/ Len(plants) >= target_count THEN plants
    ELSE Backfilled(IF i \in skipped
                    THEN Append(plants, Selection(scored_plants[i], zones[zone_idx]))
                    ELSE plants,
                    i + 1)

\* EndZone of a selector that fills free slots from the blocked categories
EndZone_Backfill ==
    /\ pc = "select"
    /\ scan_idx > Len(scored_plants) \/ Len(selected_plants) >= target_count
    /\ design' =
           [design EXCEPT
               !.zones = Append(@, [zone_id |-> zones[zone_idx].id,
                                    characteristics |-> zones[zone_idx],
                                    plants |-> Backfilled(selected_plants, 1)]),
               !.plant_selections = AddDistinct(@, Backfilled(selected_plants, 1))]
    /\ zone_idx' = zone_idx + 1
    /\ pc' = "zones"
    /\ UNCHANGED <<plant_database, site, weights, design_parameters,
                   compatible_plants, zones, scored_plants, scan_idx,
                   selected_plants, plant_types, skipped, result, prev,
                   arg, ret>>

\* the scan ends (break at the target, or list exhausted); the zone and its
\* selections enter the design (lines 70-81)
EndZone ==
    /\ pc = "select"
    /\ scan_idx > Len(scored_plants) \/ Len(selected_plants) >= target_count
    /\ design' =
           [design EXCEPT
               !.zones = Append(@, [zone_id |-> zones[zone_idx].id,
                                    characteristics |-> zones[zone_idx],
                                    plants |-> selected_plants]),
               !.plant_selections = AddDistinct(@, selected_plants)]
    /\ zone_idx' = zone_idx + 1
    /\ pc' = "zones"
    /\ UNCHANGED <<plant_database, site, weights, design_parameters,
                   compatible_plants, zones, scored_plants, scan_idx,
                   selected_plants, plant_types, skipped, result, prev,
                   arg, ret>>

\* Finish of an engine that rescales a weight of its own at every call
Finish_RescalesWeights ==
    /\ pc = "zones"
    /\ zone_idx > Len(zones)
    /\ result' = Returned([design EXCEPT
                              !.statistics = _calculate_design_statistics(design)])
    /\ pc' = "idle"
    /\ FrameCleared
    /\ weights' = [weights EXCEPT !.maintenance_level = @ \div 2]
    /\ UNCHANGED <<plant_database, site, design_parameters, prev, arg, ret>>

\* no zone left: statistics, return (lines 84-86); the frame is gone
Finish ==
    /\ pc = "zones"
    /\ zone_idx > Len(zones)
    /\ result' = Returned([design EXCEPT
                              !.statistics = _calculate_design_statistics(design)])
    /\ pc' = "idle"
    /\ FrameCleared
    /\ UNCHANGED <<plant_database, site, weights, design_parameters, prev,
                   arg, ret>>

Next ==
    \/ \E plant \in PlantPool : AddPlant(plant)
    \/ \E s \in Sites : CreateSite(s)
    \/ \E params \in DesignParameters : AlgorithmGenerate(params)
    \/ \E params \in DesignParameters : ToolGenerate(params)
    \/ BeginZone
    \/ SelectStep
    \/ EndZone
    \/ Finish

Spec == Init /\ [][Next]_vars

----------------------------------------------------------------------------
(* Properties of the selector *)

Max(a, b) == IF a >= b THEN a ELSE b
Min(a, b) == IF a <= b THEN a ELSE b

\* max(1, min(max_plants, floor(zone area / 100) + 1))
StatedTarget(zone, max_plants) ==
    Max(1, Min(max_plants, (zone.area.n \div (100 * zone.area.d)) + 1))

\* how many of the selections sel are of category t
CountOfType(sel, t) ==
    Cardinality({i \in 1..Len(sel) : sel[i].plant.plant_type = t})

\* every zone entry of design d satisfies P(plants, characteristics)
EveryZoneOf(d, P(_, _)) ==
    \A i \in 1..Len(d.zones) : P(d.zones[i].plants, d.zones[i].characteristics)

\* C1: the selector never holds more than target organisms, where target =
\* max(1, min(max_plants, floor(area / 100) + 1)): after every iteration of
\* the scan, and in every zone of a design under construction or returned.
C1_AtMostTarget ==
    LET Within(plants, zone) ==
            Len(plants) <= StatedTarget(zone, MaxPlants(design_parameters))
    IN  /\ pc = "select" => Within(selected_plants, zones[zone_idx])
        /\ EveryZoneOf(design, Within)
        /\ EveryZoneOf(result.design, Within)

\* the scan stopped at a target of two or more with candidates left
C1_Witness ==
    /\ pc = "select"
    /\ scan_idx <= Len(scored_plants)
    /\ Len(selected_plants) >= 2
    /\ Len(selected_plants) = StatedTarget(zones[zone_idx],
                                           MaxPlants(design_parameters))

\* count < target * (1 - diversity_factor)
BelowThreshold(count, target, df) == count * df.d < target * (df.d - df.n)

\* ceil(target * (1 - diversity_factor))
CategoryCap(target, df) == (target * (df.d - df.n) + df.d - 1) \div df.d

\* C2: an organism is accepted only while the accepted count of its category
\* is strictly below target * (1 - diversity_factor); an organism at or above
\* the threshold is skipped and the scan goes on; so for diversity_factor < 1
\* no category holds more than ceil(target * (1 - diversity_factor)).
C2_CategoryThreshold ==
    LET df == DiversityFactor(design_parameters)
        Target(zone) == StatedTarget(zone, MaxPlants(design_parameters))
        AcceptedBelow(plants, zone) ==
            \A k \in 1..Len(plants) :
                BelowThreshold(CountOfType(SubSeq(plants, 1, k - 1),
                                           plants[k].plant.plant_type),
                               Target(zone), df)
        Capped(plants, zone) ==
            df.n < df.d =>
                \A k \in 1..Len(plants) :
                    CountOfType(plants, plants[k].plant.plant_type)
                        <= CategoryCap(Target(zone), df)
        Holds(plants, zone) == AcceptedBelow(plants, zone) /\ Capped(plants, zone)
    IN  /\ pc = "select" =>
              /\ Holds(selected_plants, zones[zone_idx])
              /\ \A i \in skipped :
                     ~BelowThreshold(
                         CountOfType(selected_plants,
                                     scored_plants[i].plant.plant_type),
                         Target(zones[zone_idx]), df)
              /\ Cardinality(skipped) + Len(selected_plants) = scan_idx - 1
        /\ EveryZoneOf(design, Holds)
        /\ EveryZoneOf(result.design, Holds)

\* target 5 and factor 0.7: two of a category accepted, the third skipped,
\* and the scan went on
C2_Witness ==
    /\ pc = "select"
    /\ DiversityFactor(design_parameters) = Frac(7, 10)
    /\ StatedTarget(zones[zone_idx], MaxPlants(design_parameters)) = 5
    /\ skipped # {}
    /\ \E k \in 1..Len(selected_plants) :
           CountOfType(selected_plants, selected_plants[k].plant.plant_type) = 2

\* the selections of the candidates at the positions of scored that are
\* not in skip, in order
RECURSIVE Unskipped(_, _, _, _)
Unskipped(scored, skip, zone, i) ==
    IF i > Len(scored) THEN <<>>
    ELSE (IF i \in skip THEN <<>> ELSE <<Selection(scored[i], zone)>>)
         \o Unskipped(scored, skip, zone, i + 1)

\* C3: when the ranked list is exhausted before the target is met, the zone
\* keeps the smaller selection as it is: it holds exactly the candidates that
\* were not skipped, no skipped candidate was added to fill the free slots,
\* and every skipped candidate's category is still at its threshold.
C3_UnderFill ==
    (/\ pc = "zones"
     /\ zone_idx > 1
     /\ Len(design.zones[zone_idx - 1].plants)
            < StatedTarget(zones[zone_idx - 1], MaxPlants(design_parameters)))
    => LET plants == design.zones[zone_idx - 1].plants
           zone == zones[zone_idx - 1]
       IN  /\ scan_idx = Len(scored_plants) + 1
           /\ plants = Unskipped(scored_plants, skipped, zone, 1)
           /\ Len(plants) + Cardinality(skipped) = Len(scored_plants)
           /\ \A i \in skipped :
                  /\ \A k \in 1..Len(plants) :
                         plants[k] # Selection(scored_plants[i], zone)
                  /\ ~BelowThreshold(
                         CountOfType(plants, scored_plants[i].plant.plant_type),
                         StatedTarget(zone, MaxPlants(design_parameters)),
                         DiversityFactor(design_parameters))

\* a zone closed under its target although a candidate had been skipped
C3_Witness ==
    /\ pc = "zones"
    /\ zone_idx > 1
    /\ skipped # {}
    /\ Len(design.zones[zone_idx - 1].plants) >= 1
    /\ Len(design.zones[zone_idx - 1].plants)
           < StatedTarget(zones[zone_idx - 1], MaxPlants(design_parameters))

----------------------------------------------------------------------------
(* Properties of the pipeline *)

\* where the catalog holds organism p
CatalogPos(p) == CHOOSE k \in 1..Len(plant_database) : plant_database[k] = p

\* C4: the ranked list of a zone is in non-increasing order of final score,
\* and two candidates of equal score stand in their catalog order.
C4_RankedStable ==
    pc = "select" =>
        /\ Len(scored_plants) = Len(compatible_plants)
        /\ \A i \in 1..Len(scored_plants), j \in 1..Len(scored_plants) :
               i < j =>
                   /\ scored_plants[i].score >= scored_plants[j].score
                   /\ scored_plants[i].score = scored_plants[j].score =>
                          CatalogPos(scored_plants[i].plant)
                              < CatalogPos(scored_plants[j].plant)

\* a ranking that moved a later organism to the front and kept a tie in
\* catalog order
C4_Witness ==
    /\ pc = "select"
    /\ Len(scored_plants) >= 3
    /\ scored_plants[1].plant # compatible_plants[1].plant
    /\ \E i \in 1..Len(scored_plants) - 1 :
           /\ scored_plants[i].score = scored_plants[i + 1].score
           /\ scored_plants[i].plant.scientific_name = "Vernonia"

\* the global suitability score of the organism of a selection
GlobalScore(selection) ==
    is_suitable_for_plant(site, Plant(selection.plant)).overall_score

\* C5: the pre-filtered pool holds, in catalog order, exactly the organisms
\* whose site suitability score exceeds 50, so every selected organism has a
\* global suitability score of at least 60.
C5_PreFilter ==
    LET Suitable(plants, zone) ==
            \A k \in 1..Len(plants) : GlobalScore(plants[k]) >= 60
    IN  /\ pc # "idle" =>
              /\ \A k \in 1..Len(compatible_plants) :
                     /\ compatible_plants[k].suitability.overall_score >= 60
                     /\ compatible_plants[k].suitability =
                            is_suitable_for_plant(site, compatible_plants[k].plant)
              /\ \A i \in 1..Len(plant_database) :
                     (is_suitable_for_plant(site, plant_database[i]).overall_score > 50)
                         <=> \E k \in 1..Len(compatible_plants) :
                                 compatible_plants[k].plant = plant_database[i]
              /\ \A k \in 1..Len(compatible_plants), l \in 1..Len(compatible_plants) :
                     k < l => CatalogPos(compatible_plants[k].plant)
                                  < CatalogPos(compatible_plants[l].plant)
              /\ EveryZoneOf(design, Suitable)
        /\ EveryZoneOf(result.design, Suitable)

\* a design with selections from a catalog that also holds an organism of
\* score exactly 50
C5_Witness ==
    /\ result.kind = "design"
    /\ Len(result.design.plant_selections) > 0
    /\ \E i \in 1..Len(plant_database) :
           is_suitable_for_plant(site, plant_database[i]).overall_score = 50

GenerationStep ==
    pc # "idle" \/ pc' # "idle" \/ result'.kind \in {"none", "raised"}

\* C7: no step of a generation call changes a catalog record, the site
\* record or the weights of the engine.
C7_InputsUnchanged ==
    [][GenerationStep =>
          /\ plant_database' = plant_database
          /\ site' = site
          /\ weights' = weights]_vars

\* two calls on a site with pre-defined zones and a non-empty catalog are over
C7_Witness ==
    /\ result.kind = "design"
    /\ prev.valid
    /\ Len(site.zones) > 0
    /\ Len(plant_database) > 0
    /\ weights = DefaultWeights

\* statistics of a design without any plant
AllZero(st) ==
    /\ st.total_plants = 0
    /\ DOMAIN st.plant_types = {}
    /\ st.native_percentage = Whole(0)
    /\ st.water_usage_score = Whole(0)
    /\ st.maintenance_score = Whole(0)
    /\ st.biodiversity_score = 0

\* C8: with an empty catalog a call never raises: it returns no design, or
\* a design with empty selections and all-zero statistics.
C8_EmptyCatalogNeverRaises ==
    (Len(plant_database) = 0 /\ result.kind # "nocall") =>
        \/ result.kind = "none"
        \/ /\ result.kind = "design"
           /\ result.design.plant_selections = <<>>
           /\ \A i \in 1..Len(result.design.zones) :
                  result.design.zones[i].plants = <<>>
           /\ AllZero(result.design.statistics)

\* C9: on a site of total area 0 with both mappings non-empty, generation
\* does not hand an arithmetic fault to its caller.
C9_ZeroAreaGuarded ==
    (/\ get_total_area(site) = 0
     /\ Len(site.sun_exposure) > 0
     /\ Len(site.water_conditions) > 0
     /\ result.kind # "nocall")
    => result.kind # "raised"

----------------------------------------------------------------------------
(* Plant.is_compatible_with_zone on its own *)

\* organism tolerances: None, "", "5-9", "7a-9b", "7b-9", "8", "abc", "5-x",
\* "5 - 9", "7a", the number 7, "x-9"
PlantZoneValues ==
    {NoneV, Str(<<>>), Str(Z_5to9),
     Str(<<"7", "a", "-", "9", "b">>), Str(<<"7", "b", "-", "9">>),
     Str(<<"8">>), Str(Z_abc), Str(<<"5", "-", "x">>),
     Str(<<"5", " ", "-", " ", "9">>), Str(Z_7a), IntV(7),
     Str(<<"x", "-", "9">>)}

\* target zones: None, "", "7a", "7b", "7", "x", "10", the number 7, " 7 ", "7A"
TargetZoneValues ==
    {NoneV, Str(<<>>), Str(Z_7a), Str(<<"7", "b">>), Str(<<"7">>),
     Str(<<"x">>), Str(<<"1", "0">>), IntV(7), Str(<<" ", "7", " ">>),
     Str(<<"7", "A">>)}

InitZone ==
    /\ plant_database = <<>>
    /\ site = SiteOf([width |-> 20, length |-> 20], << <<>>, <<>> >>, <<>>)
    /\ weights = DefaultWeights
    /\ pc = "function"
    /\ design_parameters = <<>>
    /\ compatible_plants = <<>>
    /\ zones = <<>>
    /\ zone_idx = 0
    /\ scored_plants = <<>>
    /\ scan_idx = 0
    /\ selected_plants = <<>>
    /\ plant_types = <<>>
    /\ skipped = {}
    /\ design = NoDesign
    /\ result = NoCall
    /\ prev = NoPrev
    /\ arg \in [plant_zone : PlantZoneValues, zone : TargetZoneValues]
    /\ ret = NotRun

\* plant.is_compatible_with_zone(zone) for an organism of the given tolerance
CheckZone ==
    /\ pc = "function"
    /\ ~ret.done
    /\ ret' = Ran(is_compatible_with_zone(
                      Plant([scientific_name |-> "probe", plant_type |-> "shrub",
                             usda_hardiness_zone |-> arg.plant_zone]),
                      arg.zone))
    /\ UNCHANGED <<plant_database, site, weights, pc, design_parameters,
                   compatible_plants, zones, zone_idx, scored_plants, scan_idx,
                   selected_plants, plant_types, skipped, design, result, prev,
                   arg>>

NextZone == CheckZone

SpecZone == InitZone /\ [][NextZone]_vars

\* a zone text that reads as a zone: digits, then at most one of a, b
WellFormed(v) ==
    /\ v.kind = "str"
    /\ LET t == Strip(v.s)
           body == IF Len(t) > 0 /\ Lower(t[Len(t)]) \in {"a", "b"}
                   THEN SubSeq(t, 1, Len(t) - 1) ELSE t
       IN  Len(body) > 0 /\ \A i \in 1..Len(body) : body[i] \in Digits

\* the organism declares a tolerance, and it or the target does not parse
ParsingFails(plant_zone, zone) ==
    \/ plant_zone.kind # "str"
    \/ \E k \in 1..Min(2, Len(Split(plant_zone.s, <<>>))) :
           ~WellFormed(Str(Split(plant_zone.s, <<>>)[k]))
    \/ ~WellFormed(zone)

\* C10: is_compatible_with_zone returns true whenever the organism declares
\* no tolerance or the tolerance or the target zone does not parse.
C10_FailOpen ==
    (/\ ret.done
     /\ \/ ~Truthy(arg.plant_zone)
        \/ ParsingFails(arg.plant_zone, arg.zone))
    => ret.value

----------------------------------------------------------------------------
(* DesignAlgorithm._create_site_zones on its own *)

\* the variables of a generation call, which a function under check leaves alone
frame == <<plant_database, site, weights, design_parameters, compatible_plants,
           zones, zone_idx, scored_plants, scan_idx, selected_plants,
           plant_types, skipped, design, result, prev>>

\* no tool, no call: only a function under check
FunctionFrame ==
    /\ plant_database = <<>>
    /\ site = SiteOf([width |-> 20, length |-> 20], << <<>>, <<>> >>, <<>>)
    /\ weights = DefaultWeights
    /\ design_parameters = <<>>
    /\ compatible_plants = <<>>
    /\ zones = <<>>
    /\ zone_idx = 0
    /\ scored_plants = <<>>
    /\ scan_idx = 0
    /\ selected_plants = <<>>
    /\ plant_types = <<>>
    /\ skipped = {}
    /\ design = NoDesign
    /\ result = NoCall
    /\ prev = NoPrev

\* sites of area 400, 100 and 0 (no width)
PartitionDimensions ==
    {[width |-> 20, length |-> 20], [width |-> 10, length |-> 10], [length |-> 20]}

\* sun mappings: categories of area 0, areas below and above the total area
SunMappings ==
    {<<>>,
     <<<<"full_sun", 100>>, <<"part_shade", 0>>>>,
     <<<<"full_sun", 0>>, <<"part_shade", 0>>>>,
     <<<<"full_sun", 200>>, <<"part_shade", 200>>>>,
     <<<<"full_sun", 800>>>>,
     <<<<"part_shade", 0>>, <<"full_shade", 50>>, <<"full_sun", 50>>>>}

WaterMappings ==
    {<<>>,
     <<<<"dry", 50>>, <<"medium", 50>>>>,
     <<<<"dry", 0>>>>,
     <<<<"dry", 200>>, <<"medium", 200>>>>,
     <<<<"medium", 400>>>>,
     <<<<"wet", 0>>, <<"medium", 100>>>>}

PartitionSites ==
    {SiteOf(d, <<sun, water>>, zl) :
        d \in PartitionDimensions, sun \in SunMappings, water \in WaterMappings,
        zl \in ZoneLists}

InitPartition ==
    /\ FunctionFrame
    /\ pc = "function"
    /\ arg \in [site : PartitionSites]
    /\ ret = NotRun

\* what _create_site_zones hands back: a zone list, or a ZeroDivisionError
ZonesRaised == [raised |-> TRUE, zones |-> <<>>]
ZonesReturned(zs) == [raised |-> FALSE, zones |-> zs]

\* self._create_site_zones(site)
Partition ==
    /\ pc = "function"
    /\ ~ret.done
    /\ ret' = Ran(IF CreateZonesRaises(arg.site) THEN ZonesRaised
                  ELSE ZonesReturned(_create_site_zones(arg.site)))
    /\ UNCHANGED <<frame, pc, arg>>

NextPartition == Partition

SpecPartition == InitPartition /\ [][NextPartition]_vars

\* the pairs (position in the sun mapping, position in the water mapping)
Pairs(s) == (1..Len(s.sun_exposure)) \X (1..Len(s.water_conditions))

\* sunArea * waterArea of a pair
AreaProduct(s, p) == s.sun_exposure[p[1]][2] * s.water_conditions[p[2]][2]

\* the pairs whose estimated overlap is positive, on a site of positive area
PositivePairs(s) == {p \in Pairs(s) : AreaProduct(s, p) > 0}

\* the position of pair p among the positive pairs, sun-major
RankOf(s, p) ==
    1 + Cardinality({q \in PositivePairs(s) :
                        q[1] < p[1] \/ (q[1] = p[1] /\ q[2] < p[2])})

\* the site was partitioned by the engine, and its area is positive
EngineGenerated ==
    /\ pc = "function"
    /\ ret.done
    /\ Len(arg.site.zones) = 0
    /\ get_total_area(arg.site) > 0

LawSite ==
    SiteOf([width |-> 10, length |-> 10],
           << <<<<"full_sun", 100>>, <<"part_shade", 0>>>>,
              <<<<"dry", 50>>, <<"medium", 50>>>> >>,
           <<>>)

\* the zone of the example made from A and water category w, of area
\* (100/100) * (50/100) * 100 = 50
LawZone(id, w) == Zone(id, "full_sun", w, "loam", 65, Whole(50), Whole(50))

\* C12, as stated: on the site of the example the partitioner returns exactly
\* one zone, A x X, of area (100/100) * (50/100) * total.
C12_OneZone ==
    (pc = "function" /\ ret.done /\ arg.site = LawSite) =>
        /\ ~ret.value.raised
        /\ ret.value.zones = <<LawZone("zone_1", "dry")>>

\* C12, amended: on the site of the example the partitioner returns exactly
\* two zones, A x X and then A x Y, each of area (100/100) * (50/100) * total;
\* no zone is made for B, whose area is 0.
C12_TwoZones ==
    (pc = "function" /\ ret.done /\ arg.site = LawSite) =>
        /\ ~ret.value.raised
        /\ ret.value.zones = <<LawZone("zone_1", "dry"), LawZone("zone_2", "medium")>>

\* the site of the example was partitioned
C12_Witness ==
    /\ pc = "function"
    /\ ret.done
    /\ arg.site = LawSite
    /\ Len(ret.value.zones) > 0

\* C13: on a site without pre-defined zones and of positive area, whose sun
\* and water areas are non-negative and need not sum to the total area, every
\* zone the engine makes has an area of at most the total area.
C13_ZoneWithinSite ==
    EngineGenerated =>
        /\ ~ret.value.raised
        /\ \A i \in 1..Len(ret.value.zones) :
               ret.value.zones[i].area.n
                   <= get_total_area(arg.site) * ret.value.zones[i].area.d

\* the estimate of the spec on a site of area 0: every guarded division
\* yields 0, so no pair has a positive overlap
NoPositiveOverlap(s) ==
    get_total_area(s) = 0 \/ PositivePairs(s) = {}

\* the single zone that covers the whole site
FallbackZone(s) ==
    [id |-> "zone_1", sun_exposure |-> "full_sun", water_condition |-> "medium",
     soil_type |-> s.soil_type, soil_ph |-> s.soil_ph,
     area |-> Whole(get_total_area(s)), percentage |-> Whole(100)]

\* the list holds a zone for each pair of positive overlap and nothing else:
\* no fallback zone was added to it
OnlyPairZones(s, made) ==
    /\ Len(made) = Cardinality(PositivePairs(s))
    /\ \A p \in PositivePairs(s) :
           /\ made[RankOf(s, p)].sun_exposure = s.sun_exposure[p[1]][1]
           /\ made[RankOf(s, p)].water_condition = s.water_conditions[p[2]][1]
           /\ made[RankOf(s, p)].area = Frac(AreaProduct(s, p), get_total_area(s))

\* C14: on a site without pre-defined zones, _create_site_zones returns the
\* single fallback zone (zone_1, full_sun, medium, the site's soil type and
\* pH, the total area, 100 percent) when no pair of the sun and the water
\* mapping has a positive overlap, and only then.
C14_Fallback ==
    (pc = "function" /\ ret.done /\ Len(arg.site.zones) = 0) =>
        /\ ~ret.value.raised
        /\ NoPositiveOverlap(arg.site) =>
               ret.value.zones = <<FallbackZone(arg.site)>>
        /\ ~NoPositiveOverlap(arg.site) => OnlyPairZones(arg.site, ret.value.zones)

\* C14 on the sites where the partitioner does not divide by a total area of 0
C14_FallbackWhereDefined ==
    (pc = "function" /\ ret.done /\ Len(arg.site.zones) = 0
     /\ ~CreateZonesRaises(arg.site)) =>
        /\ ~ret.value.raised
        /\ NoPositiveOverlap(arg.site) =>
               ret.value.zones = <<FallbackZone(arg.site)>>
        /\ ~NoPositiveOverlap(arg.site) => OnlyPairZones(arg.site, ret.value.zones)

----------------------------------------------------------------------------
(* Properties of the designs *)

\* the zone entries of design d are the first zones of the list zs, in order
ZoneEntriesFollow(d, zs) ==
    /\ Len(d.zones) <= Len(zs)
    /\ \A i \in 1..Len(d.zones) :
           /\ d.zones[i].zone_id = zs[i].id
           /\ d.zones[i].characteristics = zs[i]

\* C15: on a site with a non-empty pre-defined zone list the partitioner
\* returns that list as it is, whatever the sun and water mappings hold, and
\* the design has one zone entry per pre-defined zone, in the same order.
C15_ManualOverride ==
    Len(site.zones) > 0 =>
        /\ pc \in {"zones", "select"} =>
               /\ zones = site.zones
               /\ ZoneEntriesFollow(design, site.zones)
        /\ result.kind # "raised"
        /\ result.kind = "design" =>
               /\ Len(result.design.zones) = Len(site.zones)
               /\ ZoneEntriesFollow(result.design, site.zones)

\* a design with plants for a site that has two pre-defined zones and a sun
\* and water breakdown of its own
C15_Witness ==
    /\ result.kind = "design"
    /\ Len(site.zones) = 2
    /\ Len(site.sun_exposure) > 0
    /\ Len(site.water_conditions) > 0
    /\ Len(result.design.zones) = 2
    /\ Len(result.design.plant_selections) > 0

----------------------------------------------------------------------------
(* Site.is_suitable_for_plant on its own *)

\* sites that differ in soil, hardiness zone and in the categories of their
\* sun and water mappings
SuitabilitySites ==
    {[SiteOf([width |-> 20, length |-> 20], <<sun, water>>, <<>>)
         EXCEPT !.soil_type = st, !.hardiness_zone = hz] :
        sun \in {<<>>, <<<<"full_sun", 200>>, <<"part_shade", 200>>>>,
                 <<<<"full_shade", 400>>>>},
        water \in {<<>>, <<<<"dry", 200>>, <<"medium", 200>>>>, <<<<"wet", 400>>>>},
        st \in {"loam", "clay"},
        hz \in {Str(Z_7a), Str(<<"1", "0">>)}}

InitSuitability ==
    /\ FunctionFrame
    /\ pc = "function"
    /\ arg \in [site : SuitabilitySites, plant : PlantPool]
    /\ ret = NotRun

\* site.is_suitable_for_plant(plant)
Suitability ==
    /\ pc = "function"
    /\ ~ret.done
    /\ ret' = Ran(is_suitable_for_plant(arg.site, arg.plant))
    /\ UNCHANGED <<frame, pc, arg>>

NextSuitability == Suitability

SpecSuitability == InitSuitability /\ [][NextSuitability]_vars

\* the weight of a dimension whose flag is set
Weighted(flag, weight) == IF flag THEN weight ELSE 0

\* C16: the score of is_suitable_for_plant is the sum of the weights (zone 30,
\* soil 30, sun 20, water 20) of the dimensions whose flag in the verdict is
\* true, hence a multiple of 10 in [0, 100]; the sun (water) flag is true iff
\* the sun (water) mapping of the site is empty or the organism is compatible
\* with at least one category that is a key of the mapping.
C16_SuitabilityScore ==
    (pc = "function" /\ ret.done) =>
        LET v == ret.value
            s == arg.site
        IN  /\ v.overall_score =
                   Weighted(v.zone_compatible, 30) + Weighted(v.soil_compatible, 30)
                   + Weighted(v.sun_compatible, 20) + Weighted(v.water_compatible, 20)
            /\ v.overall_score \in {10 * k : k \in 0..10}
            /\ v.sun_compatible <=>
                   \/ Len(s.sun_exposure) = 0
                   \/ \E i \in 1..Len(s.sun_exposure) :
                          is_compatible_with_sun(arg.plant, s.sun_exposure[i][1])
            /\ v.water_compatible <=>
                   \/ Len(s.water_conditions) = 0
                   \/ \E i \in 1..Len(s.water_conditions) :
                          is_compatible_with_water(arg.plant, s.water_conditions[i][1])

\* an organism that does not fit the first of two water categories of a site
\* and fits the second; another dimension fails
C16_Witness ==
    /\ pc = "function"
    /\ ret.done
    /\ Len(arg.site.sun_exposure) = 2
    /\ Len(arg.site.water_conditions) = 2
    /\ ~is_compatible_with_water(arg.plant, arg.site.water_conditions[1][1])
    /\ ret.value.sun_compatible
    /\ ret.value.water_compatible
    /\ ret.value.overall_score < 100

----------------------------------------------------------------------------
(* DesignAlgorithm._score_plants_for_zone on its own *)

\* the organisms above and a shrub of medium maintenance that is not native
ScorePlants ==
    PlantPool \cup
    {Plant([scientific_name |-> "Ilex", plant_type |-> "shrub",
            native_range |-> {"Texas"},
            usda_hardiness_zone |-> Str(Z_5to9), spread_range |-> <<3, 3>>,
            sun_exposure |-> {"full_sun", "part_shade"}, water_needs |-> "dry",
            maintenance_level |-> "medium"])}

\* a site the partitioner accepts, one of its zones, one organism
ScoreInputs ==
    {x \in [site : {s \in Sites : ~CreateZonesRaises(s)}, plant : ScorePlants,
            k : 1..4] :
        x.k <= Len(_create_site_zones(x.site))}

InitScore ==
    /\ FunctionFrame
    /\ pc = "function"
    /\ arg \in ScoreInputs
    /\ ret = NotRun

\* self._score_plants_for_zone(zone, compatible_plants) for the k-th zone of
\* the site and the pre-filtered catalog that holds the organism
Score ==
    /\ pc = "function"
    /\ ~ret.done
    /\ ret' = Ran(_score_plants_for_zone(
                      weights, _create_site_zones(arg.site)[arg.k],
                      _filter_compatible_plants(arg.site, <<arg.plant>>)))
    /\ UNCHANGED <<frame, pc, arg>>

NextScore == Score

SpecScore == InitScore /\ [][NextScore]_vars

\* the zone bonus as the specification states it
StatedBonus(plant, zone) ==
    Weighted(is_compatible_with_sun(plant, zone.sun_exposure), 20)
    + Weighted(is_compatible_with_water(plant, zone.water_condition), 25)
    + Weighted(is_compatible_with_soil(plant, zone.soil_type, zone.soil_ph), 25)
    + Weighted("Arkansas" \in plant.native_range \/ "AR" \in plant.native_range, 15)
    + (CASE plant.maintenance_level = "low" -> 10
         [] plant.maintenance_level = "medium" -> 5
         [] OTHER -> 0)

\* C17: a pre-filtered organism gets, in a zone, the final score 0.4 * global
\* suitability score + 0.6 * zone bonus (held in tenths: 4 * global + 6 *
\* bonus), where the bonus is 20 for sun, 25 for water, 25 for soil, 15 for a
\* native organism and 10 / 5 / 0 for maintenance low / medium / high or
\* unset; the bonus is at most 95 and the final score at most 97.
C17_FinalScore ==
    (pc = "function" /\ ret.done) =>
        LET zone == _create_site_zones(arg.site)[arg.k]
            global == is_suitable_for_plant(arg.site, arg.plant).overall_score
            bonus == StatedBonus(arg.plant, zone)
        IN  /\ Len(ret.value) = (IF global > 50 THEN 1 ELSE 0)
            /\ \A i \in 1..Len(ret.value) :
                   /\ ret.value[i].plant = arg.plant
                   /\ ret.value[i].zone_id = zone.id
                   /\ ret.value[i].score = 4 * global + 6 * bonus
                   /\ bonus <= 95
                   /\ ret.value[i].score <= 970

\* an organism of medium maintenance was scored in a zone whose water
\* category it does not fit
C17_Witness ==
    /\ pc = "function"
    /\ ret.done
    /\ Len(ret.value) = 1
    /\ arg.plant.maintenance_level = "medium"
    /\ ~is_compatible_with_water(arg.plant,
                                 _create_site_zones(arg.site)[arg.k].water_condition)
    /\ ret.value[1].score = 4 * 100 + 6 * (20 + 25 + 5)

----------------------------------------------------------------------------
(* DesignAlgorithm._calculate_plant_quantity on its own *)

\* (min, max) spreads with the means 0, 1, 1.5, 2.5, 3, 3.5, 6, 6, 6.5, 35
SpreadRanges ==
    {<<0, 0>>, <<1, 1>>, <<1, 2>>, <<2, 3>>, <<3, 3>>, <<3, 4>>, <<5, 7>>,
     <<6, 6>>, <<6, 7>>, <<30, 40>>}

\* zone areas 0, 6.25, 24, 25, 50, 100, 399, 400, 500, 800, 1600
ZoneAreas ==
    {Whole(0), Frac(25, 4), Whole(24), Whole(25), Whole(50), Whole(100),
     Whole(399), Whole(400), Whole(500), Whole(800), Whole(1600)}

InitQuantity ==
    /\ FunctionFrame
    /\ pc = "function"
    /\ arg \in [spread_range : SpreadRanges, area : ZoneAreas]
    /\ ret = NotRun

\* self._calculate_plant_quantity(plant, area)
Quantity ==
    /\ pc = "function"
    /\ ~ret.done
    /\ ret' = Ran(_calculate_plant_quantity(
                      Plant([scientific_name |-> "probe", plant_type |-> "shrub",
                             spread_range |-> arg.spread_range]),
                      arg.area))
    /\ UNCHANGED <<frame, pc, arg>>

NextQuantity == Quantity

SpecQuantity == InitQuantity /\ [][NextQuantity]_vars

\* the density per 100 area units for a spread, as the fraction the
\* specification states: mean <= 1 -> 16, <= 3 -> 4, <= 6 -> 1, else 0.25
StatedDensity(spread_range) ==
    LET twice_mean == spread_range[1] + spread_range[2]
    IN  IF twice_mean <= 2 * 1 THEN Whole(16)
        ELSE IF twice_mean <= 2 * 3 THEN Whole(4)
        ELSE IF twice_mean <= 2 * 6 THEN Whole(1)
        ELSE Frac(1, 4)

\* floor(x) of a fraction x >= 0
Floor(x) == x.n \div x.d

\* C18: _calculate_plant_quantity returns max(1, floor(area / 100 * density))
\* with the density 16 / 4 / 1 / 0.25 for a mean spread <= 1 / <= 3 / <= 6 /
\* above 6; the result is an integer of at least 1, and it is 20 for a spread
\* of 2-3 in a zone of area 500.
C18_Quantity ==
    (pc = "function" /\ ret.done) =>
        /\ ret.value =
               Max(1, Floor(FracMul(FracDiv(arg.area, Whole(100)),
                                    StatedDensity(arg.spread_range))))
        /\ ret.value \in Nat
        /\ ret.value >= 1
        /\ (arg.spread_range = <<2, 3>> /\ arg.area = Whole(500)) => ret.value = 20

\* the example: spread 2-3, area 500, quantity 20
C18_Witness ==
    /\ pc = "function"
    /\ ret.done
    /\ arg.spread_range = <<2, 3>>
    /\ arg.area = Whole(500)
    /\ ret.value = 20

----------------------------------------------------------------------------
(* Properties of the statistics *)

\* a fraction x lies in [lo, hi]
FracWithin(x, lo, hi) == lo * x.d <= x.n /\ x.n <= hi * x.d

\* C19: in the statistics of a returned design the water-usage score and the
\* maintenance score lie in [1, 3] when the total quantity is positive,
\* whatever the tiers of the selected organisms (unset, dry and wet
\* included), and both are 0 when the total quantity is 0.
C19_TierScoresInRange ==
    result.kind = "design" =>
        LET st == result.design.statistics
        IN  IF st.total_plants > 0
            THEN /\ FracWithin(st.water_usage_score, 1, 3)
                 /\ FracWithin(st.maintenance_score, 1, 3)
            ELSE /\ st.water_usage_score = Whole(0)
                 /\ st.maintenance_score = Whole(0)

\* C19 for the designs whose selected organisms all have a water-demand tier
\* and a maintenance tier among low, medium, high
C19_TierScoresInRangeWhenTiered ==
    (/\ result.kind = "design"
     /\ \A i \in 1..Len(result.design.zones) :
            \A k \in 1..Len(result.design.zones[i].plants) :
                LET plant == result.design.zones[i].plants[k].plant
                IN  /\ plant.water_needs \in {"low", "medium", "high"}
                    /\ plant.maintenance_level \in {"low", "medium", "high"})
    => LET st == result.design.statistics
       IN  IF st.total_plants > 0
           THEN /\ FracWithin(st.water_usage_score, 1, 3)
                /\ FracWithin(st.maintenance_score, 1, 3)
           ELSE /\ st.water_usage_score = Whole(0)
                /\ st.maintenance_score = Whole(0)

\* the organism of a selection is native to the target region
IsNative(selection) ==
    "Arkansas" \in selection.plant.native_range \/ "AR" \in selection.plant.native_range

\* the quantities of the selections plants[k..], of the native organisms
\* only when native_only is set; then the same summed over the zones of d
RECURSIVE QuantityIn(_, _, _)
QuantityIn(plants, k, native_only) ==
    IF k > Len(plants) THEN 0
    ELSE (IF native_only /\ ~IsNative(plants[k]) THEN 0 ELSE plants[k].quantity)
         + QuantityIn(plants, k + 1, native_only)

RECURSIVE QuantityOfDesign(_, _, _)
QuantityOfDesign(d, i, native_only) ==
    IF i > Len(d.zones) THEN 0
    ELSE QuantityIn(d.zones[i].plants, 1, native_only)
         + QuantityOfDesign(d, i + 1, native_only)

\* C20: in the statistics of a returned design the native percentage is
\* native quantity / total quantity * 100 when the total quantity is
\* positive and 0 when it is 0; it lies in [0, 100], and it is 100 when every
\* selected organism is native.
C20_NativePercentage ==
    result.kind = "design" =>
        LET d == result.design
            st == d.statistics
            total == QuantityOfDesign(d, 1, FALSE)
            native == QuantityOfDesign(d, 1, TRUE)
        IN  /\ st.total_plants = total
            /\ st.native_percentage =
                   (IF total > 0 THEN Frac(native * 100, total) ELSE Whole(0))
            /\ FracWithin(st.native_percentage, 0, 100)
            /\ (total > 0 /\ native = total) => st.native_percentage = Whole(100)

\* a design that mixes native and other organisms in unequal quantities
C20_Witness ==
    /\ result.kind = "design"
    /\ QuantityOfDesign(result.design, 1, TRUE) > 0
    /\ QuantityOfDesign(result.design, 1, TRUE)
           < QuantityOfDesign(result.design, 1, FALSE)
    /\ \E i \in 1..Len(result.design.zones) :
           \E k, l \in 1..Len(result.design.zones[i].plants) :
               /\ IsNative(result.design.zones[i].plants[k])
               /\ ~IsNative(result.design.zones[i].plants[l])
               /\ result.design.zones[i].plants[k].quantity
                      # result.design.zones[i].plants[l].quantity
    /\ ~FracWithin(result.design.statistics.native_percentage, 100, 100)
    /\ ~FracWithin(result.design.statistics.native_percentage, 0, 0)

----------------------------------------------------------------------------
(* DesignAlgorithm._calculate_design_statistics on its own *)

\* the selection of quantity q of an organism of the i-th category; every
\* third organism is not native
StatSelection(name, i, q, zone_id) ==
    [plant |-> to_dict(Plant([scientific_name |-> name,
                              plant_type |-> "type_" \o ToString(i),
                              native_range |-> IF i % 3 = 0 THEN {"Texas"} ELSE {"AR"},
                              water_needs |-> "medium",
                              maintenance_level |-> "low"])),
     score |-> 700,
     quantity |-> q,
     zone_id |-> zone_id]

\* the selections of a zone: the organisms of the categories lo..hi, and
\* extra further organisms of category lo
StatPlants(lo, hi, q, extra, zone_id) ==
    [k \in 1..((hi - lo + 1) + extra) |->
        IF k <= hi - lo + 1
        THEN StatSelection("sp_" \o ToString(lo + k - 1), lo + k - 1, q, zone_id)
        ELSE StatSelection("sp_more_" \o ToString(k), lo, q + 1, zone_id)]

\* a design with n categories in one zone, or split over two zones
StatDesign(n, q, extra, split) ==
    LET first == IF split = 2 THEN n \div 2 ELSE n
        entry(id, plants) ==
            [zone_id |-> id,
             characteristics |->
                 Zone(id, "full_sun", "medium", "loam", 65, Whole(400), Whole(50)),
             plants |-> plants]
    IN  [site |-> <<>>,
         zones |->
            <<entry("zone_1", StatPlants(1, first, q, IF first > 0 THEN extra ELSE 0,
                                         "zone_1"))>>
            \o (IF split = 2
                THEN <<entry("zone_2", StatPlants(first + 1, n, q, 0, "zone_2"))>>
                ELSE <<>>),
         plant_selections |-> <<>>,
         statistics |-> <<>>]

\* the most categories a design under check holds: two above the cap of 10
StatCategories == 12

StatDesigns ==
    {StatDesign(n, q, extra, split) :
        n \in 0..StatCategories, q \in {1, 4}, extra \in 0..2, split \in {1, 2}}

InitStatistics ==
    /\ FunctionFrame
    /\ pc = "function"
    /\ arg \in [design : StatDesigns]
    /\ ret = NotRun

\* self._calculate_design_statistics(design)
Statistics ==
    /\ pc = "function"
    /\ ~ret.done
    /\ ret' = Ran(_calculate_design_statistics(arg.design))
    /\ UNCHANGED <<frame, pc, arg>>

NextStatistics == Statistics

SpecStatistics == InitStatistics /\ [][NextStatistics]_vars

\* the categories that occur among the selections of the zones of design d
CategoriesOf(d) ==
    UNION {{d.zones[i].plants[k].plant.plant_type :
               k \in 1..Len(d.zones[i].plants)} : i \in 1..Len(d.zones)}

\* C21: the biodiversity score is min(100, 10 * number of distinct categories
\* among the selections of all zones): 0 for a design without selections, 10
\* when all selections share one category.
C21_Biodiversity ==
    (pc = "function" /\ ret.done) =>
        LET count == Cardinality(CategoriesOf(arg.design))
            none == \A i \in 1..Len(arg.design.zones) :
                        Len(arg.design.zones[i].plants) = 0
        IN  /\ ret.value.biodiversity_score = Min(100, 10 * count)
            /\ none => ret.value.biodiversity_score = 0
            /\ (~none /\ count = 1) => ret.value.biodiversity_score = 10

\* a design of more than ten categories, spread over two zones, scored 100
C21_Witness ==
    /\ pc = "function"
    /\ ret.done
    /\ Len(arg.design.zones) = 2
    /\ Cardinality(CategoriesOf(arg.design)) > 10
    /\ ret.value.biodiversity_score = 100

----------------------------------------------------------------------------
(* Properties of the flat selection list *)

\* the organisms selected in some zone of design d
OrganismsUsed(d) ==
    UNION {{d.zones[i].plants[k].plant : k \in 1..Len(d.zones[i].plants)} :
              i \in 1..Len(d.zones)}

\* C22: the flat plant_selections list of a design holds each organism that
\* is used in some zone exactly once, also when several zones selected it.
C22_FlatListDistinct ==
    result.kind = "design" =>
        LET flat == result.design.plant_selections
        IN  /\ {flat[i].plant : i \in 1..Len(flat)} = OrganismsUsed(result.design)
            /\ \A i, j \in 1..Len(flat) : i # j => flat[i].plant # flat[j].plant

\* C22 for the designs in which no organism was selected for two zones
C22_FlatListDistinctWhenZonesDisjoint ==
    (/\ result.kind = "design"
     /\ \A i, j \in 1..Len(result.design.zones) :
            i # j => \A k \in 1..Len(result.design.zones[i].plants) :
                        \A l \in 1..Len(result.design.zones[j].plants) :
                            result.design.zones[i].plants[k].plant
                                # result.design.zones[j].plants[l].plant)
    => LET flat == result.design.plant_selections
       IN  /\ {flat[i].plant : i \in 1..Len(flat)} = OrganismsUsed(result.design)
           /\ \A i, j \in 1..Len(flat) : i # j => flat[i].plant # flat[j].plant

----------------------------------------------------------------------------
(* Properties of the compatibility predicates *)

\* the number a well-formed zone text stands for, doubled: "7" and "7a" are
\* 7.0, "7b" is 7.5
StatedZoneValue(text) ==
    LET t == Strip(text)
        last == Lower(t[Len(t)])
        body == IF last \in {"a", "b"} THEN SubSeq(t, 1, Len(t) - 1) ELSE t
    IN  2 * DigitsValue(body, 0) + (IF last = "b" THEN 1 ELSE 0)

\* a tolerance of one or two well-formed endpoints
WellFormedTolerance(v) ==
    /\ v.kind = "str"
    /\ Len(Split(v.s, <<>>)) \in {1, 2}
    /\ \A k \in 1..Len(Split(v.s, <<>>)) : WellFormed(Str(Split(v.s, <<>>)[k]))

\* C23: for a well-formed tolerance and a well-formed target,
\* is_compatible_with_zone is true iff min <= target <= max, both bounds
\* inclusive, on the numbers the texts stand for (suffix a -> base, b ->
\* base + 0.5, a single endpoint is both min and max); an organism without a
\* declared tolerance is compatible with every target.
C23_ZoneRange ==
    (pc = "function" /\ ret.done) =>
        /\ (WellFormedTolerance(arg.plant_zone) /\ WellFormed(arg.zone)) =>
               LET parts == Split(arg.plant_zone.s, <<>>)
                   min == StatedZoneValue(parts[1])
                   max == StatedZoneValue(parts[Len(parts)])
                   target == StatedZoneValue(arg.zone.s)
               IN  ret.value <=> (min <= target /\ target <= max)
        /\ ~Truthy(arg.plant_zone) => ret.value

\* a target half a zone below the tolerance "7b-9" was rejected
C23_Witness ==
    /\ pc = "function"
    /\ ret.done
    /\ arg.plant_zone = Str(<<"7", "b", "-", "9">>)
    /\ arg.zone = Str(Z_7a)
    /\ ~ret.value

----------------------------------------------------------------------------
(* Plant.is_compatible_with_soil, _with_sun and _with_water on their own *)

\* an organism with the given tolerances; <<>> leaves an argument out
Tolerant(soil, ph, sun, water) ==
    Plant([k \in {"scientific_name", "plant_type"}
                 \cup (IF soil = <<>> THEN {} ELSE {"soil_type"})
                 \cup (IF ph = <<>> THEN {} ELSE {"soil_ph"})
                 \cup (IF sun = <<>> THEN {} ELSE {"sun_exposure"})
                 \cup (IF water = <<>> THEN {} ELSE {"water_needs"}) |->
              CASE k = "scientific_name" -> "probe"
                [] k = "plant_type" -> "shrub"
                [] k = "soil_type" -> soil[1]
                [] k = "soil_ph" -> ph[1]
                [] k = "sun_exposure" -> sun[1]
                [] OTHER -> water[1]])

\* soil checks: soil tolerance none / two types / one type, pH range
\* none / 6.0-7.0 / 5.0-5.0, against three soil types and pH 4.9 to 8.0
SoilInputs ==
    {[fn |-> "soil", plant |-> Tolerant(soil, ph, <<>>, <<>>),
      category |-> soil_type, ph |-> soil_ph] :
        soil \in {<<>>, <<{"loam", "sandy"}>>, <<{"clay"}>>},
        ph \in {<<>>, <<<<60, 70>>>>, <<<<50, 50>>>>},
        soil_type \in {"loam", "clay", "silt"},
        soil_ph \in {49, 50, 51, 54, 55, 60, 65, 70, 71, 75, 76, 80}}

SunInputs ==
    {[fn |-> "sun", plant |-> Tolerant(<<>>, <<>>, sun, <<>>),
      category |-> sun_condition, ph |-> 0] :
        sun \in {<<>>, <<{}>>, <<{"full_sun", "part_shade"}>>, <<{"full_shade"}>>},
        sun_condition \in {"full_sun", "part_shade", "full_shade", "deep_shade"}}

WaterInputs ==
    {[fn |-> "water", plant |-> Tolerant(<<>>, <<>>, <<>>, water),
      category |-> water_condition, ph |-> 0] :
        water \in {<<>>, <<"">>, <<"dry">>, <<"medium">>, <<"wet">>, <<"low">>},
        water_condition \in {"dry", "medium", "wet", "moist"}}

InitTolerance ==
    /\ FunctionFrame
    /\ pc = "function"
    /\ arg \in SoilInputs \cup SunInputs \cup WaterInputs
    /\ ret = NotRun

\* plant.is_compatible_with_soil(soil_type, soil_ph)
CheckSoil ==
    /\ pc = "function"
    /\ ~ret.done
    /\ arg.fn = "soil"
    /\ ret' = Ran(is_compatible_with_soil(arg.plant, arg.category, arg.ph))
    /\ UNCHANGED <<frame, pc, arg>>

\* plant.is_compatible_with_sun(sun_condition)
CheckSun ==
    /\ pc = "function"
    /\ ~ret.done
    /\ arg.fn = "sun"
    /\ ret' = Ran(is_compatible_with_sun(arg.plant, arg.category))
    /\ UNCHANGED <<frame, pc, arg>>

\* plant.is_compatible_with_water(water_condition)
CheckWater ==
    /\ pc = "function"
    /\ ~ret.done
    /\ arg.fn = "water"
    /\ ret' = Ran(is_compatible_with_water(arg.plant, arg.category))
    /\ UNCHANGED <<frame, pc, arg>>

NextTolerance == CheckSoil \/ CheckSun \/ CheckWater

SpecTolerance == InitTolerance /\ [][NextTolerance]_vars

\* C24: is_compatible_with_soil(soilType, pH) is true iff (the organism
\* declares no soil-type tolerance or soilType is in it) and pH lies within
\* the organism's pH range, bounds included; an organism constructed without
\* a pH range has the range 5.5-7.5.
C24_Soil ==
    (pc = "function" /\ ret.done /\ arg.fn = "soil") =>
        /\ ret.value <=>
               /\ arg.plant.soil_type = {} \/ arg.category \in arg.plant.soil_type
               /\ arg.plant.soil_ph[1] <= arg.ph
               /\ arg.ph <= arg.plant.soil_ph[2]
        /\ arg.plant = Tolerant(<<>>, <<>>, <<>>, <<>>) =>
               /\ arg.plant.soil_ph = <<55, 75>>
               /\ ret.value <=> (55 <= arg.ph /\ arg.ph <= 75)

\* an organism constructed without soil tolerance and pH range accepted pH
\* 7.5, the upper bound of the default range
C24_Witness ==
    /\ pc = "function"
    /\ ret.done
    /\ arg.fn = "soil"
    /\ arg.plant = Tolerant(<<>>, <<>>, <<>>, <<>>)
    /\ arg.ph = 75
    /\ ret.value

\* C25: is_compatible_with_sun(category) is true iff the organism declares
\* no sun tolerance or the category is in its tolerance set; without a
\* declared tolerance it is true for every category.
C25_Sun ==
    (pc = "function" /\ ret.done /\ arg.fn = "sun") =>
        /\ ret.value <=>
               (arg.plant.sun_exposure = {} \/ arg.category \in arg.plant.sun_exposure)
        /\ arg.plant.sun_exposure = {} => ret.value

\* an organism without sun tolerance met a category no organism names
C25_Witness ==
    /\ pc = "function"
    /\ ret.done
    /\ arg.fn = "sun"
    /\ arg.plant.sun_exposure = {}
    /\ arg.category = "deep_shade"
    /\ ret.value

\* C26: is_compatible_with_water(category) is true iff the organism declares
\* no water-demand tier or its tier equals the category; a neighbouring tier
\* (organism medium, zone dry) is not compatible.
C26_Water ==
    (pc = "function" /\ ret.done /\ arg.fn = "water") =>
        /\ ret.value <=>
               (arg.plant.water_needs \in {None, ""}
                \/ arg.plant.water_needs = arg.category)
        /\ (arg.plant.water_needs = "medium" /\ arg.category = "dry") => ~ret.value

\* organism medium, zone dry: rejected
C26_Witness ==
    /\ pc = "function"
    /\ ret.done
    /\ arg.fn = "water"
    /\ arg.plant.water_needs = "medium"
    /\ arg.category = "dry"
    /\ ~ret.value

----------------------------------------------------------------------------
(* Properties of the selector and the ranking, continued *)

\* the caller asked for diversity_factor = 1
FullDiversity ==
    /\ "diversity_factor" \in DOMAIN design_parameters
    /\ design_parameters.diversity_factor = Frac(1, 1)

\* C27: with diversity_factor = 1 every category is blocked from the start
\* and the selection of every zone is empty; with diversity_factor < 1 and a
\* non-empty candidate list the top-ranked candidate is accepted, so the
\* selection is not empty.
C27_DiversityExtremes ==
    /\ pc = "select" =>
           /\ FullDiversity => selected_plants = <<>>
           /\ (~FullDiversity /\ scan_idx > 1) =>
                  /\ Len(selected_plants) >= 1
                  /\ selected_plants[1] = Selection(scored_plants[1], zones[zone_idx])
    /\ (pc = "zones" /\ zone_idx > 1) =>
           LET plants == design.zones[zone_idx - 1].plants
           IN  /\ FullDiversity => plants = <<>>
               /\ (~FullDiversity /\ Len(scored_plants) > 0) =>
                      /\ Len(plants) >= 1
                      /\ plants[1] = Selection(scored_plants[1], zones[zone_idx - 1])
    /\ result.kind = "design" =>
           \A i \in 1..Len(result.design.zones) :
               LET plants == result.design.zones[i].plants
               IN  /\ FullDiversity => plants = <<>>
                   /\ (/\ ~FullDiversity
                        /\ Len(_filter_compatible_plants(site, plant_database)) > 0)
                      => Len(plants) >= 1

\* a design for diversity_factor = 1: candidates in two zones, nothing selected
C27_Witness ==
    /\ result.kind = "design"
    /\ FullDiversity
    /\ Len(_filter_compatible_plants(site, plant_database)) >= 2
    /\ Len(result.design.zones) >= 2
    /\ \A i \in 1..Len(result.design.zones) : result.design.zones[i].plants = <<>>

\* C28: for every zone the ranked list is a permutation of the pre-filtered
\* pool (the same organisms, each once), whether or not an organism fits the
\* zone; a candidate that does not fit is selected like any other when the
\* zone closes with slots left and its category was not blocked.
C28_BonusNotFilter ==
    /\ pc = "select" =>
           /\ Len(scored_plants) = Len(compatible_plants)
           /\ \A k \in 1..Len(compatible_plants) :
                  Cardinality({i \in 1..Len(scored_plants) :
                                  scored_plants[i].plant = compatible_plants[k].plant}) = 1
    /\ (/\ pc = "zones"
        /\ zone_idx > 1
        /\ Len(design.zones[zone_idx - 1].plants)
               < StatedTarget(zones[zone_idx - 1], MaxPlants(design_parameters)))
       => \A i \in 1..Len(scored_plants) :
              i \notin skipped =>
                  \E k \in 1..Len(design.zones[zone_idx - 1].plants) :
                      design.zones[zone_idx - 1].plants[k].plant
                          = to_dict(scored_plants[i].plant)

\* a zone closed with an organism that fits it in neither sun, water nor soil
C28_Witness ==
    /\ pc = "zones"
    /\ zone_idx > 1
    /\ \E i \in 1..Len(scored_plants) :
           /\ ~is_compatible_with_sun(scored_plants[i].plant,
                                      zones[zone_idx - 1].sun_exposure)
           /\ ~is_compatible_with_water(scored_plants[i].plant,
                                        zones[zone_idx - 1].water_condition)
           /\ ~is_compatible_with_soil(scored_plants[i].plant,
                                       zones[zone_idx - 1].soil_type,
                                       zones[zone_idx - 1].soil_ph)
           /\ \E k \in 1..Len(design.zones[zone_idx - 1].plants) :
                  design.zones[zone_idx - 1].plants[k].plant
                      = to_dict(scored_plants[i].plant)

----------------------------------------------------------------------------
(* Properties of the statistics, continued *)

\* the (zone, selection) positions of design d
Positions(d) ==
    UNION {{<<i, k>> : k \in 1..Len(d.zones[i].plants)} : i \in 1..Len(d.zones)}

\* the quantities at a set of positions, summed
RECURSIVE QuantityAt(_, _)
QuantityAt(d, ps) ==
    IF ps = {} THEN 0
    ELSE LET p == CHOOSE x \in ps : TRUE
         IN  d.zones[p[1]].plants[p[2]].quantity + QuantityAt(d, ps \ {p})

\* the values of a dict held as a function, summed
RECURSIVE SumValues(_, _)
SumValues(f, keys) ==
    IF keys = {} THEN 0
    ELSE LET k == CHOOSE x \in keys : TRUE
         IN  f[k] + SumValues(f, keys \ {k})

\* C29: in the statistics of a returned design total_plants is the sum of the
\* quantities of all selections over all zones (an organism counts once per
\* zone that selected it), each category's count is the summed quantity of
\* the selections of that category, and the counts sum to total_plants.
C29_Conservation ==
    result.kind = "design" =>
        LET d == result.design
            st == d.statistics
        IN  /\ st.total_plants = QuantityAt(d, Positions(d))
            /\ DOMAIN st.plant_types = CategoriesOf(d)
            /\ \A t \in DOMAIN st.plant_types :
                   st.plant_types[t] =
                       QuantityAt(d, {p \in Positions(d) :
                                         d.zones[p[1]].plants[p[2]].plant.plant_type = t})
            /\ SumValues(st.plant_types, DOMAIN st.plant_types) = st.total_plants

\* a design of two categories in which one organism was selected for two
\* zones
C29_Witness ==
    /\ result.kind = "design"
    /\ Cardinality(CategoriesOf(result.design)) = 2
    /\ \E p, q \in Positions(result.design) :
           /\ p[1] # q[1]
           /\ result.design.zones[p[1]].plants[p[2]].plant
                  = result.design.zones[q[1]].plants[q[2]].plant

----------------------------------------------------------------------------
(* Properties of the partition, continued *)

\* the areas of a sun or water mapping, summed
RECURSIVE MappingArea(_)
MappingArea(m) == IF Len(m) = 0 THEN 0 ELSE Head(m)[2] + MappingArea(Tail(m))

\* the sum of a sequence of fractions
RECURSIVE FracSum(_)
FracSum(seq) ==
    IF Len(seq) = 0 THEN Whole(0)
    ELSE LET h == Head(seq)
             r == FracSum(Tail(seq))
         IN  Frac(h.n * r.d + r.n * h.d, h.d * r.d)

====
